---- MODULE Spec2Model ----
(***************************************************************************)
(* Generation job orchestrator of hi-ai-backend (src/server.js).           *)
(*                                                                         *)
(* Spec follows one unit of work of the server: one call of                *)
(* pollPredictionByUrl(getUrl, cfg), or one request handled by             *)
(* POST /api/image-studio (runSingle, its fallback chain, waitPrediction,  *)
(* the single response and the batch loop), or one request handled by      *)
(* POST /api/brand-post (the version-then-slug image chain).  FairSpec     *)
(* adds the progress the event loop gives: every await completes.          *)
(*                                                                         *)
(* JavaScript strings are modelled as sequences of chunks (TLA+ strings),  *)
(* so that "is empty", "starts with http(s)://" and concatenation are      *)
(* computed.  JSON values are records [t, s, items].                       *)
(***************************************************************************)
EXTENDS Integers, Sequences, FiniteSets, TLC

VARIABLES
    \* ---- pollPredictionByUrl frame
    pollPc,        \* "idle" | "loop" | "sleep" | "returned" | "threw"
    pollTries,     \* cfg.tries after the default is applied
    pollI,         \* loop counter i
    pollLast,      \* last status response (JSON), NoJob before the first fetch
    pollResult,    \* the returned job, or the thrown error
    pollFetches,   \* number of status fetches issued (observation)
    pollSleeps,    \* number of sleeps completed (observation)
    \* ---- /api/image-studio request
    req,           \* the parsed request body and the environment it meets
    pc,            \* position of the handler
    image_data,    \* let image_data (mutable: filled from body.image)
    tasks,         \* the tasks to run (one for a single request)
    ti,            \* index of the task being run
    out,           \* batch entries collected so far
    ci,            \* index of the chain candidate being attempted
    tried,         \* attempt log of the running chain
    elapsed,       \* Date.now() - started inside waitPrediction
    p,             \* the status response waitPrediction read last
    err,           \* error in flight (thrown, not yet caught)
    ret,           \* value returned / error thrown by runSingle
    response,      \* the HTTP response sent
    inflight,      \* candidates of the running chain whose attempt is open (observation)
    submitted,     \* candidates submitted by the running runSingle, in order (observation)
    nSubmits,      \* provider job creations of the request (observation)
    fetchAt,       \* elapsed time at which waitPrediction issued its last status fetch,
                   \* -1 before the first (observation)
    \* ---- /api/brand-post request (shares req, pc, response and the observations)
    modelTried,    \* let modelTried = []: labels of the candidates entered
    modelError,    \* let modelError = null: the error kept for the response
    image_url,     \* let image_url = null: what the chain extracted
    \* ---- /api/video-reels request (shares req, pc, image_url, response and the observations)
    video_url,     \* let video_url = null: what the video attempts extracted
    \* ---- /api/video-studio request (shares req, pc, video_url, response and the observations)
    incomingImage, \* let incomingImage: the source image as read, then as repaired
    \* ---- a helper function called on its own
    fn,            \* the function and the argument it is called with
    fnOut,         \* the values its calls have returned so far, in order
    \* ---- two image-studio requests in flight at once
    iso,           \* the handler frame of each request (its locals and its answer)
    \* ---- the paywall (guardPaid) in front of the generation routes
    PAYWALL_ENABLED, \* process.env.PAYWALL_ENABLED === "true"
    KEY_MAP,       \* let KEY_MAP: the records of keys.json, by key
    inheritedUsed, \* Object.prototype.used, which every record without a `used` of its own reads
    gate,          \* the requests at the paywall: key, path, position, answer
    \* ---- /api/video-reels: the caption step
    vprompt,       \* let vprompt = null: the visual prompt the jobs are created with
    \* ---- the caller
    abandoned      \* the caller has given up on the request (connection closed)

pollVars == <<pollPc, pollTries, pollI, pollLast, pollResult, pollFetches, pollSleeps>>
studioVars == <<req, pc, image_data, tasks, ti, out, ci, tried, elapsed, p, err, ret,
                response, inflight, submitted, nSubmits, fetchAt>>
brandVars == <<modelTried, modelError, image_url>>
reelVars == <<video_url>>
payVars == <<PAYWALL_ENABLED, KEY_MAP, inheritedUsed, gate>>
moreVars == <<incomingImage, fn, fnOut, iso, payVars, vprompt>>
vars == <<pollVars, studioVars, brandVars, reelVars, moreVars, abandoned>>

(***************************************************************************)
(* Bounds of the model                                                     *)
(***************************************************************************)
\* explicit cfg.tries values run 0..MaxTries (besides the default)
MaxTries == 3
\* body.batch_count of the requests that reach the provider is absent or 1..MaxBatchCount
MaxBatchCount == 2
\* body.batch_count of the requests that only plan runs up to MaxPlanCount
MaxPlanCount == 9
\* numeric body.max_wait_ms values are k * SleepMs for k in 0..MaxWaitSteps
MaxWaitSteps == 1
\* the sequences and mappings handed to pickUrl hold up to MaxItems values
MaxItems == 2
\* the strings handed to makeDataUrlSafe hold up to MaxPieces pieces
MaxPieces == 4

(***************************************************************************)
(* JSON values and strings                                                 *)
(***************************************************************************)
JNull == [t |-> "null", s |-> <<>>, items |-> <<>>]
JStr(chunks) == [t |-> "str", s |-> chunks, items |-> <<>>]
JArr(items) == [t |-> "arr", s |-> <<>>, items |-> items]
JObj(values) == [t |-> "obj", s |-> <<>>, items |-> values]
JNumber(digits) == [t |-> "num", s |-> <<digits>>, items |-> <<>>]
JBool(b) == [t |-> "bool", s |-> <<IF b THEN "true" ELSE "false">>, items |-> <<>>]

OutUrl == JStr(<<"https://", "replicate.delivery/out.png">>)

\* typeof v === "string" && /^https?:\/\//i.test(v)
okUrl(v) ==
    /\ v.t = "str"
    /\ Len(v.s) > 0
    /\ v.s[1] \in {"http://", "https://", "HTTP://", "HTTPS://"}

\* the first URL-shaped value of a sequence of values, JNull when none
RECURSIVE FirstUrl(_)
FirstUrl(values) ==
    IF values = <<>> THEN JNull
    ELSE IF okUrl(Head(values)) THEN Head(values)
    ELSE FirstUrl(Tail(values))

\* !output: null, undefined, "", 0, false (an empty array or object is truthy)
Falsy(v) ==
    \/ v.t = "null"
    \/ (v.t = "str" /\ v.s = <<>>)
    \/ (v.t = "num" /\ v.s = <<"0">>)
    \/ (v.t = "bool" /\ v.s = <<"false">>)

pickUrl_unchecked(output) ==
    IF Falsy(output) THEN JNull
    ELSE IF output.t = "arr" THEN (IF output.items = <<>> THEN JNull ELSE Head(output.items))
    ELSE output

pickUrl_scalarsOnly(output) == IF okUrl(output) THEN output ELSE JNull

pickUrl(output) ==
    IF Falsy(output) THEN JNull
    ELSE IF okUrl(output) THEN output
    ELSE IF output.t = "arr" THEN
        IF output.items = <<>> THEN JNull
        ELSE IF okUrl(Head(output.items)) THEN Head(output.items)
        ELSE IF Head(output.items).t \in {"arr", "obj"}
                /\ FirstUrl(Head(output.items).items) # JNull
             THEN FirstUrl(Head(output.items).items)
        \* falls through to the typeof "object" scan over the array's own values
        ELSE FirstUrl(output.items)
    ELSE IF output.t = "obj" THEN FirstUrl(output.items)
    ELSE JNull

(***************************************************************************)
(* Provider responses to a status fetch                                    *)
(***************************************************************************)
NoDetail == ""
Job(status, output, error) == [status |-> status, output |-> output, error |-> error]
NoJob == Job("none", JNull, NoDetail)

Pending == Job("processing", JNull, NoDetail)
Starting == Job("starting", JNull, NoDetail)
SucceededJobs == {Job("succeeded", o, NoDetail) : o \in {OutUrl, JArr(<<OutUrl>>), JArr(<<>>)}}
FailedJobs == {Job(s, JNull, e) : s \in {"failed", "canceled"}, e \in {NoDetail, "CUDA out of memory"}}
StatusJobs == {Starting, Pending} \cup SucceededJobs \cup FailedJobs

\* an error value: what String(e) / e.message tell apart
Error(kind, model, detail) == [kind |-> kind, model |-> model, detail |-> detail]
NoError == Error("none", "", NoDetail)
\* fetchJson on a non-ok HTTP answer
HttpError == Error("http", "", "500")

(***************************************************************************)
(* pollPredictionByUrl                                                     *)
(***************************************************************************)
DefaultTries == 240
Absent == -1

\* { tries = 240 } = {}: the default fills an absent tries
TriesOf(cfgTries) == IF cfgTries = Absent THEN DefaultTries ELSE cfgTries

\* for (let i = 0; i < tries; i++)
PollContinue_le(i, tries) == i <= tries
PollContinue(i, tries) == i < tries

IsSucceeded_typo(status) == status = "success"
IsSucceeded(status) == status = "succeeded"

IsTerminalFailure_failedOnly(status) == status = "failed"
IsTerminalFailure(status) == status = "failed" \/ status = "canceled"

\* `Replicate failed: ${last?.error || last?.status || last?.logs || "unknown"}`
PollFailure(last) ==
    Error("failed", "", IF last.error # NoDetail THEN last.error ELSE last.status)

PollTimeoutError == Error("timeout", "", NoDetail)

\* one pass of the loop body up to the sleep: fetch, then return / throw / go on
PollFetch ==
    /\ pollPc = "loop"
    /\ PollContinue(pollI, pollTries)
    /\ \E j \in StatusJobs :
        /\ pollLast' = j
        /\ pollFetches' = pollFetches + 1
        /\ IF IsSucceeded(j.status)
           THEN pollPc' = "returned" /\ pollResult' = [job |-> j, error |-> NoError]
           ELSE IF IsTerminalFailure(j.status)
           THEN pollPc' = "threw" /\ pollResult' = [job |-> NoJob, error |-> PollFailure(j)]
           ELSE pollPc' = "sleep" /\ UNCHANGED pollResult
    /\ UNCHANGED <<abandoned, moreVars, video_url, pollTries, pollI, pollSleeps, studioVars, brandVars>>

\* fetchJson throws on a non-ok HTTP answer; nothing in the poller catches it
PollFetchHttpError ==
    /\ pollPc = "loop"
    /\ PollContinue(pollI, pollTries)
    /\ pollFetches' = pollFetches + 1
    /\ pollPc' = "threw"
    /\ pollResult' = [job |-> NoJob, error |-> HttpError]
    /\ UNCHANGED <<abandoned, moreVars, video_url, pollTries, pollI, pollLast, pollSleeps, studioVars, brandVars>>

\* await sleep(delayMs); i++
PollSleep ==
    /\ pollPc = "sleep"
    /\ pollSleeps' = pollSleeps + 1
    /\ pollI' = pollI + 1
    /\ pollPc' = "loop"
    /\ UNCHANGED <<abandoned, moreVars, video_url, pollTries, pollLast, pollResult, pollFetches, studioVars, brandVars>>

\* the loop ends: throw new Error("Replicate timeout")
PollTimeout ==
    /\ pollPc = "loop"
    /\ ~PollContinue(pollI, pollTries)
    /\ pollPc' = "threw"
    /\ pollResult' = [job |-> NoJob, error |-> PollTimeoutError]
    /\ UNCHANGED <<abandoned, moreVars, video_url, pollTries, pollI, pollLast, pollFetches, pollSleeps, studioVars, brandVars>>

\* a caller enters pollPredictionByUrl(getUrl, cfg) with a fresh frame
PollCall(cfgTries) ==
    /\ pollPc' = "loop"
    /\ pollTries' = TriesOf(cfgTries)
    /\ pollI' = 0
    /\ pollLast' = NoJob
    /\ pollResult' = [job |-> NoJob, error |-> NoError]
    /\ pollFetches' = 0
    /\ pollSleeps' = 0

\* the caller has taken the outcome: the frame is gone
PollExit ==
    /\ pollPc' = "idle"
    /\ pollTries' = 0
    /\ pollI' = 0
    /\ pollLast' = NoJob
    /\ pollResult' = [job |-> NoJob, error |-> NoError]
    /\ pollFetches' = 0
    /\ pollSleeps' = 0

PollEnded == pollPc \in {"returned", "threw"}

(***************************************************************************)
(* POST /api/image-studio: constants and request parsing                   *)
(***************************************************************************)
REMOVE_BG_MODELS ==
    << "recraft-ai/recraft-remove-background",
       "851-labs/background-remover",
       "lucataco/remove-bg" >>

UPSCALE_MODELS ==
    << "stability-ai/stable-diffusion-x4-upscaler",
       "stability-ai/sd-x4-upscaler",
       "lucataco/stable-diffusion-x4-upscaler",
       "xinntao/real-esrgan",
       "nightmareai/real-esrgan" >>

FluxSchnell == "black-forest-labs/flux-schnell"
FluxKontext == "black-forest-labs/flux-kontext-pro"

ChainActions == {"remove_bg", "upscale"}
EditActions == {"img2img", "inpaint"}

ANGLE_MAP(key) ==
    CASE key = "front" -> "front view"
      [] key = "34left" -> "3/4 angle, left side"
      [] key = "34right" -> "3/4 angle, right side"
      [] key = "side" -> "side view"
      [] key = "back" -> "back view"
      [] key = "top" -> "top-down view"
      [] key = "low" -> "low-angle cinematic shot"
      [] OTHER -> key

angleOrder == <<"front", "34left", "side", "34right", "back", "34right", "side", "34left">>

\* order[i % order.length] for i = 0..count-1, mapped through ANGLE_MAP
orbitAngles(count) ==
    [i \in 1..count |-> ANGLE_MAP(angleOrder[((i - 1) % Len(angleOrder)) + 1])]

\* angles = anglesRaw.map(key -> ANGLE_MAP[key] || key)
AnglesOf(anglesRaw) == [i \in 1..Len(anglesRaw) |-> ANGLE_MAP(anglesRaw[i])]

Min(a, b) == IF a < b THEN a ELSE b
Max(a, b) == IF a > b THEN a ELSE b

\* JavaScript values of the numeric body fields: absent, null, a number, a string
\* that is no number; NaN is what arithmetic makes of the last.  Strengths are in
\* thousandths.
JsUndefined == [t |-> "undefined", n |-> 0]
JsNull == [t |-> "null", n |-> 0]
JsText == [t |-> "text", n |-> 0]
JsNum(n) == [t |-> "num", n |-> n]
NaN == [t |-> "nan", n |-> 0]

\* Number(v)
ToNumber(v) ==
    CASE v.t = "num" -> v
      [] v.t = "null" -> JsNum(0)
      [] OTHER -> NaN

\* !v
JsFalsy(v) == v.t \in {"undefined", "null", "nan"} \/ (v.t = "num" /\ v.n = 0)

\* v == null
Nullish(v) == v.t \in {"undefined", "null"}

\* Math.min / Math.max: NaN if either argument is NaN
MathMin(a, b) == IF a.t = "nan" \/ b.t = "nan" THEN NaN ELSE JsNum(Min(a.n, b.n))
MathMax(a, b) == IF a.t = "nan" \/ b.t = "nan" THEN NaN ELSE JsNum(Max(a.n, b.n))

\* a + k
Plus(a, k) == IF a.t = "nan" THEN NaN ELSE JsNum(a.n + k)

MaxBatch == 8

\* Math.max(1, Math.min(8, Number(body.batch_count || 1)))
BatchCount(raw) ==
    MathMax(JsNum(1), MathMin(JsNum(MaxBatch), ToNumber(IF JsFalsy(raw) THEN JsNum(1) ELSE raw)))

\* const count = Math.max(1, Math.min(8, batch_count))
Count(r) == MathMax(JsNum(1), MathMin(JsNum(MaxBatch), BatchCount(r.batch_count)))

\* the turns of for (let i = 0; i < count; i++): none when count is NaN
Turns(count) == IF count.t = "num" THEN count.n ELSE 0

\* anglePhrase ? `${promptRaw}, ${anglePhrase}` : promptRaw
WithPhrase(promptRaw, anglePhrase) ==
    IF anglePhrase # "" THEN promptRaw \o <<", ", anglePhrase>> ELSE promptRaw

\* batch_count === 1: camera_path === "orbit" ? "" : angles[0] || ""
SinglePhrase(r) ==
    IF r.camera_path = "orbit" \/ r.angles = <<>> THEN "" ELSE AnglesOf(r.angles)[1]

\* seqAngles of a batch
SeqAngles_labelsFirst(r) ==
    IF r.camera_path = "orbit" /\ r.angles = <<>> /\ BatchCount(r.batch_count).t = "num"
       /\ BatchCount(r.batch_count).n > 1
    THEN orbitAngles(Turns(Count(r)))
    ELSE AnglesOf(r.angles)
SeqAngles(r) ==
    IF r.camera_path = "orbit" /\ BatchCount(r.batch_count).t = "num" /\ BatchCount(r.batch_count).n > 1
    THEN orbitAngles(Turns(Count(r)))
    ELSE AnglesOf(r.angles)

BatchPhrase(r, i) ==
    IF SeqAngles(r) = <<>> THEN "" ELSE SeqAngles(r)[((i - 1) % Len(SeqAngles(r))) + 1]

DEFAULT_STRENGTH == 600
MaxJitter == 60

\* const strength = body.strength ?? DEFAULT_STRENGTH
Strength(r) == IF Nullish(r.strength) THEN JsNum(DEFAULT_STRENGTH) ELSE r.strength

\* const seed = body.seed ?? null
Seed(r) == IF Nullish(r.seed) THEN JsNull ELSE r.seed

\* seed != null ? Number(seed) : Math.floor(Math.random() * 10000000)
BaseSeed(r, random) == IF Seed(r) # JsNull THEN ToNumber(Seed(r)) ELSE JsNum(random)

\* seed_lock ? baseSeed : baseSeed + i
UseSeed_fromOne(r, random, i) == IF r.seed_lock THEN BaseSeed(r, random) ELSE Plus(BaseSeed(r, random), i + 1)
UseSeed(r, random, i) == IF r.seed_lock THEN BaseSeed(r, random) ELSE Plus(BaseSeed(r, random), i)

\* jitterStrength(base) with j = Math.random() * 0.12 - 0.06
jitterStrength_unclamped(base, j) ==
    JsNum((IF ToNumber(base).t = "num" THEN ToNumber(base).n ELSE DEFAULT_STRENGTH) + j)
jitterStrength(base, j) ==
    JsNum(Min(900, Max(300, (IF ToNumber(base).t = "num" THEN ToNumber(base).n ELSE DEFAULT_STRENGTH) + j)))

\* action === "img2img" || action === "inpaint" ? jitterStrength(strength) : strength
TaskStrength(r, j) == IF r.action \in EditActions THEN jitterStrength(Strength(r), j) ELSE Strength(r)

Task(prompt, strength, seed) == [prompt |-> prompt, strength |-> strength, seed |-> seed]

IsBatch(r) == BatchCount(r.batch_count) # JsNum(1)

\* the tasks of a request: the one task of a single request, else the batch plan,
\* under the draws of Math.random() (random: the base seed, js[i]: task i's jitter)
PlanTasks(r, random, js) ==
    IF ~IsBatch(r)
    THEN << Task(WithPhrase(r.promptRaw, SinglePhrase(r)), Strength(r), Seed(r)) >>
    ELSE [i \in 1..Turns(Count(r)) |->
             Task(WithPhrase(r.promptRaw, BatchPhrase(r, i)),
                  TaskStrength(r, js[i]),
                  UseSeed(r, random, i - 1))]

(***************************************************************************)
(* waitPrediction(id, model, maxMs = 120000)                               *)
(***************************************************************************)
DefaultMaxMs == 120000
SleepMs == 1200

MwUndefined == [t |-> "undefined", n |-> 0]
MwNull == [t |-> "null", n |-> 0]
MwText == [t |-> "text", n |-> 0]
MwNum(n) == [t |-> "num", n |-> n]

\* the default parameter value replaces undefined only
MaxMsOf(v) == IF v.t = "undefined" THEN MwNum(DefaultMaxMs) ELSE v

\* Date.now() - started > maxMs, with JavaScript's conversion of maxMs to a number:
\* null is 0, a non-numeric string is NaN and every comparison with NaN is false
Expired(e, maxMs) ==
    CASE maxMs.t = "num" -> e > maxMs.n
      [] maxMs.t = "null" -> e > 0
      [] OTHER -> FALSE

\* the clock is followed up to one sleep past the largest ceiling
ClockCap == DefaultMaxMs + 2 * SleepMs
Tick(e) == Min(e + SleepMs, ClockCap)

(***************************************************************************)
(* runSingle                                                               *)
(***************************************************************************)
\* input.prompt of the job runSingle creates: the task's prompt for text2img, the
\* handler's promptRaw for the other actions
InputPrompt(action, task, promptRaw) ==
    IF action = "text2img" THEN task.prompt ELSE promptRaw

\* the candidates runSingle goes through for an action
Candidates(action) ==
    CASE action = "text2img" -> <<FluxSchnell>>
      [] action \in EditActions -> <<FluxKontext>>
      [] action = "remove_bg" -> REMOVE_BG_MODELS
      [] action = "upscale" -> UPSCALE_MODELS
      [] OTHER -> <<>>

\* for (const m of MODELS): the candidate after candidate i
NextCandidate_again(i) == i
NextCandidate_skip(i) == i + 2
NextCandidate(i) == i + 1

\* the validation at the head of each branch of runSingle; NoError when it passes
Validate_chainUnchecked(action, task, hasImage) ==
    CASE action = "text2img" /\ task.prompt = <<>> -> Error("validation", "", "prompt is required for text2img")
      [] action \in EditActions /\ ~hasImage -> Error("validation", "", "image is required")
      [] action \notin {"text2img", "add_object"} \cup EditActions \cup ChainActions ->
            Error("validation", "", "unknown action")
      [] OTHER -> NoError
Validate(action, task, hasImage) ==
    CASE action = "text2img" /\ task.prompt = <<>> -> Error("validation", "", "prompt is required for text2img")
      [] action \in EditActions \cup ChainActions /\ ~hasImage -> Error("validation", "", "image is required")
      [] action \notin {"text2img", "add_object"} \cup EditActions \cup ChainActions ->
            Error("validation", "", "unknown action")
      [] OTHER -> NoError

\* what runSingle hands back
Returned(url, model, log) == [kind |-> "return", image_url |-> url, model |-> model,
                                    tried |-> log, hasTried |-> TRUE, error |-> NoError, status |-> 0]
ReturnedPlain(url, model) == [kind |-> "return", image_url |-> url, model |-> model,
                                    tried |-> <<>>, hasTried |-> FALSE, error |-> NoError, status |-> 0]
ReturnedError(e, status) == [kind |-> "return", image_url |-> JNull, model |-> "",
                             tried |-> <<>>, hasTried |-> FALSE, error |-> e, status |-> status]
Thrown(e) == [kind |-> "throw", image_url |-> JNull, model |-> "",
              tried |-> <<>>, hasTried |-> FALSE, error |-> e, status |-> 0]
NoRet == [kind |-> "none", image_url |-> JNull, model |-> "",
          tried |-> <<>>, hasTried |-> FALSE, error |-> NoError, status |-> 0]

\* after the loop over MODELS: upscale returns a soft result, remove_bg throws
Exhausted_allSoft(action) == ReturnedError(Error("exhausted", "", "no available models"), 502)
Exhausted(action) ==
    IF action = "upscale"
    THEN ReturnedError(Error("exhausted", "", "no available models"), 502)
    ELSE Thrown(Error("exhausted", "", "all models failed"))

NoRequest ==
    [route |-> "none", token |-> FALSE, action |-> "", promptRaw |-> <<>>, angles |-> <<>>,
     camera_path |-> "none", image |-> "none", mask |-> "none", batch_count |-> JsUndefined,
     seed |-> JsUndefined, seed_lock |-> FALSE, strength |-> JsUndefined,
     max_wait_ms |-> MwUndefined,
     idea |-> <<>>, image_model_hint |-> "auto", style |-> "auto", options_image |-> TRUE, text_only |-> FALSE,
     versionFlux |-> FALSE, versionSdxl |-> FALSE,
     image_only |-> FALSE, force_video |-> FALSE, videoSlug |-> "", versionVideo |-> FALSE,
     source |-> JNull, mode |-> "", slugI2V |-> ""]

Resp(status, ok, e, model, url, batch, hasBatch) ==
    [status |-> status, ok |-> ok, error |-> e, model |-> model, image_url |-> url,
     batch |-> batch, hasBatch |-> hasBatch, model_tried |-> <<>>,
     video_url |-> JNull, mode |-> ""]
NoResponse == Resp(0, FALSE, NoError, "", JNull, <<>>, FALSE)

(***************************************************************************)
(* The provider's answers the model lets a request meet.  A batch over a   *)
(* fallback chain meets the plain answers only (succeeded with a URL,      *)
(* failed, still processing): its entries carry whole attempt logs.        *)
(***************************************************************************)
PlainJobs == {Pending, Job("succeeded", OutUrl, NoDetail), Job("failed", JNull, NoDetail)}
HeavyRequest(r) == IsBatch(r) /\ r.action \in ChainActions
\* The draws of Math.random() the model lets a plan meet: both ends of each range
\* (and the middle of the jitter) for the requests that end without the provider,
\* one draw for the others.
RandomSeeds == {0, 9999999}
Jitters == {-MaxJitter, 0, MaxJitter - 1}
NoProvider(r) ==
    \/ r.action = "add_object"
    \/ (r.action \in EditActions \cup ChainActions /\ r.image = "none")
SeedDraws(r) == IF IsBatch(r) /\ Seed(r) = JsNull /\ NoProvider(r) THEN RandomSeeds ELSE {0}
JitterDraws(r) == IF IsBatch(r) /\ r.action \in EditActions /\ NoProvider(r) THEN Jitters ELSE {0}

AltUrl == JStr(<<"https://", "replicate.delivery/alt.png">>)
Responses(r) ==
    IF HeavyRequest(r) THEN PlainJobs
    ELSE IF IsBatch(r) THEN StatusJobs \cup {Job("succeeded", AltUrl, NoDetail)}
    ELSE StatusJobs
HttpFaults(r) == ~HeavyRequest(r)

(***************************************************************************)
(* The handler up to the plan                                              *)
(***************************************************************************)
\* if (!process.env.REPLICATE_API_TOKEN) return res.status(500)...
StudioMissingToken ==
    /\ pc = "recv"
    /\ ~req.token
    /\ response' = Resp(500, FALSE, Error("config", "", "Missing REPLICATE_API_TOKEN"), "", JNull, <<>>, FALSE)
    /\ pc' = "done"
    /\ UNCHANGED <<abandoned, moreVars, video_url, req, image_data, tasks, ti, out, ci, tried, elapsed, p, err, ret,
                   inflight, submitted, nSubmits, fetchAt, pollVars, brandVars>>

NeedsFetch(r) == (r.image = "url") \/ (r.mask = "url")

\* image_data = await urlToDataURL(imageUrl) (and the mask), then the plan:
\* the one task of a single request, or the tasks of the batch
StudioPlan ==
    /\ pc = "recv"
    /\ req.token
    /\ image_data' = (image_data \/ req.image = "url")
    /\ \E random \in SeedDraws(req) :
       \E js \in [1..Turns(Count(req)) -> JitterDraws(req)] :
            tasks' = PlanTasks(req, random, js)
    /\ out' = <<>>
    /\ IF Turns(Count(req)) = 0
       THEN ti' = 0 /\ pc' = "finish"
       ELSE ti' = 1 /\ pc' = "run"
    /\ UNCHANGED <<abandoned, moreVars, video_url, req, ci, tried, elapsed, p, err, ret, response,
                   inflight, submitted, nSubmits, fetchAt, pollVars, brandVars>>

\* urlToDataURL throws: res.status(400) `fetch(url) failed`
StudioFetchFail ==
    /\ pc = "recv"
    /\ req.token
    /\ NeedsFetch(req)
    /\ response' = Resp(400, FALSE, Error("fetch", "", "fetch(url) failed"), "", JNull, <<>>, FALSE)
    /\ pc' = "done"
    /\ UNCHANGED <<abandoned, moreVars, video_url, req, image_data, tasks, ti, out, ci, tried, elapsed, p, err, ret,
                   inflight, submitted, nSubmits, fetchAt, pollVars, brandVars>>

(***************************************************************************)
(* runSingle(task)                                                         *)
(***************************************************************************)
Cands == Candidates(req.action)
IsChain == req.action \in ChainActions

\* entry of runSingle: the branch's validation, then the first candidate
RunSingleStart ==
    /\ pc = "run"
    /\ submitted' = <<>>
    /\ inflight' = {}
    /\ tried' = <<>>
    /\ IF Validate(req.action, tasks[ti], image_data) # NoError
       THEN /\ ret' = Thrown(Validate(req.action, tasks[ti], image_data))
            /\ pc' = "ret"
            /\ UNCHANGED ci
       ELSE IF req.action = "add_object"
       THEN /\ ret' = ReturnedPlain(JNull, "local-canvas")
            /\ pc' = "ret"
            /\ UNCHANGED ci
       ELSE /\ ci' = 1
            /\ pc' = "create"
            /\ UNCHANGED ret
    /\ UNCHANGED <<abandoned, moreVars, video_url, req, image_data, tasks, ti, out, elapsed, p, err, response,
                   nSubmits, fetchAt, pollVars, brandVars>>

\* replicateCreateBySlug: the guards that precede the POST
CreateGuard_unguarded(token, slug) == NoError
CreateGuard(token, slug) ==
    IF ~token THEN Error("config", "", "Missing REPLICATE_API_TOKEN")
    ELSE IF slug = "" THEN Error("config", "", "Missing Replicate model slug")
    ELSE NoError

\* const pred = await replicateCreateBySlug(slug, input): the job is created
Create ==
    /\ pc = "create"
    /\ IF CreateGuard(req.token, Cands[ci]) # NoError
       THEN /\ err' = CreateGuard(req.token, Cands[ci])
            /\ pc' = "threw"
            /\ UNCHANGED <<submitted, inflight, nSubmits, elapsed, fetchAt>>
       ELSE /\ submitted' = Append(submitted, ci)
            /\ inflight' = inflight \cup {ci}
            /\ nSubmits' = nSubmits + 1
            /\ elapsed' = 0
            /\ fetchAt' = -1
            /\ pc' = "wait"
            /\ UNCHANGED err
    /\ UNCHANGED <<abandoned, moreVars, video_url, req, image_data, tasks, ti, out, ci, tried, p, ret, response, pollVars, brandVars>>

\* the POST is answered with a non-ok HTTP status: fetchJson throws
CreateHttpError ==
    /\ pc = "create"
    /\ HttpFaults(req)
    /\ CreateGuard(req.token, Cands[ci]) = NoError
    /\ submitted' = Append(submitted, ci)
    /\ nSubmits' = nSubmits + 1
    /\ err' = HttpError
    /\ pc' = "threw"
    /\ UNCHANGED <<abandoned, moreVars, video_url, req, image_data, tasks, ti, out, ci, tried, elapsed, p, ret, response,
                   inflight, fetchAt, pollVars, brandVars>>

WaitSucceeded(status) == status = "succeeded"

WaitTerminalFailure(status) == status = "failed" \/ status = "canceled"

\* `prediction ${p.status} (${model})${p.error ? `: ${p.error}` : ""}`
WaitFailure(j, model) == Error(j.status, model, j.error)

\* if (Date.now() - started > maxMs) throw new Error(`timeout (${model})`)
WaitTimeout ==
    /\ pc = "wait"
    /\ Expired(elapsed, MaxMsOf(req.max_wait_ms))
    /\ err' = Error("timeout", Cands[ci], NoDetail)
    /\ inflight' = inflight \ {ci}
    /\ pc' = "threw"
    /\ UNCHANGED <<abandoned, moreVars, video_url, req, image_data, tasks, ti, out, ci, tried, elapsed, p, ret, response,
                   submitted, nSubmits, fetchAt, pollVars, brandVars>>

\* one pass of the loop: the status fetch, then return / throw / sleep(1200)
WaitFetch ==
    /\ pc = "wait"
    /\ ~Expired(elapsed, MaxMsOf(req.max_wait_ms))
    /\ \E j \in Responses(req) :
        /\ p' = j
        /\ fetchAt' = elapsed
        /\ IF WaitSucceeded(j.status)
           THEN IF pickUrl(j.output) = JNull
                THEN /\ err' = Error("empty", Cands[ci], NoDetail)
                     /\ pc' = "threw"
                     /\ inflight' = inflight \ {ci}
                     /\ UNCHANGED elapsed
                ELSE /\ pc' = "got"
                     /\ inflight' = inflight \ {ci}
                     /\ UNCHANGED <<err, elapsed>>
           ELSE IF WaitTerminalFailure(j.status)
           THEN /\ err' = WaitFailure(j, Cands[ci])
                /\ pc' = "threw"
                /\ inflight' = inflight \ {ci}
                /\ UNCHANGED elapsed
           ELSE /\ elapsed' = Tick(elapsed)
                /\ pc' = "wait"
                /\ UNCHANGED <<err, inflight>>
    /\ UNCHANGED <<abandoned, moreVars, video_url, req, image_data, tasks, ti, out, ci, tried, ret, response,
                   submitted, nSubmits, pollVars, brandVars>>

\* the status fetch is answered with a non-ok HTTP status: fetchJson throws
WaitFetchHttpError ==
    /\ pc = "wait"
    /\ HttpFaults(req)
    /\ ~Expired(elapsed, MaxMsOf(req.max_wait_ms))
    /\ fetchAt' = elapsed
    /\ err' = HttpError
    /\ inflight' = inflight \ {ci}
    /\ pc' = "threw"
    /\ UNCHANGED <<abandoned, moreVars, video_url, req, image_data, tasks, ti, out, ci, tried, elapsed, p, ret, response,
                   submitted, nSubmits, pollVars, brandVars>>

\* return { image_url, model: m.slug, tried } (no tried outside a chain)
AttemptReturn ==
    /\ pc = "got"
    /\ ret' = IF IsChain THEN Returned(pickUrl(p.output), Cands[ci], tried)
              ELSE ReturnedPlain(pickUrl(p.output), Cands[ci])
    /\ pc' = "ret"
    /\ elapsed' = 0
    /\ fetchAt' = -1
    /\ UNCHANGED <<abandoned, moreVars, video_url, req, image_data, tasks, ti, out, ci, tried, p, err, response,
                   inflight, submitted, nSubmits, pollVars, brandVars>>

\* catch (e) of the chain: every error thrown inside the try is caught
ChainCatches_notTimeout(e) == e.kind # "timeout"
ChainCatches(e) == TRUE

\* tried.push({ model: m.slug, error: String(e) })
PushTried_dropsEarlier(log, model, e) == << [model |-> model, error |-> e] >>
PushTried(log, model, e) == Append(log, [model |-> model, error |-> e])

\* the chain's catch: log the failure, go to the next candidate or fall out of the loop
ChainCatch ==
    /\ pc = "threw"
    /\ IsChain
    /\ ChainCatches(err)
    /\ tried' = PushTried(tried, Cands[ci], err)
    /\ err' = NoError
    /\ p' = NoJob
    /\ IF NextCandidate(ci) <= Len(Cands)
       THEN /\ ci' = NextCandidate(ci)
            /\ pc' = "create"
            /\ UNCHANGED ret
       ELSE /\ ret' = Exhausted(req.action)
            /\ pc' = "ret"
            /\ UNCHANGED ci
    /\ elapsed' = 0
    /\ fetchAt' = -1
    /\ UNCHANGED <<abandoned, moreVars, video_url, req, image_data, tasks, ti, out, response,
                   inflight, submitted, nSubmits, pollVars, brandVars>>

\* no try around the attempt (or an error the catch lets through): runSingle throws
AttemptThrow ==
    /\ pc = "threw"
    /\ ~(IsChain /\ ChainCatches(err))
    /\ ret' = Thrown(err)
    /\ err' = NoError
    /\ p' = NoJob
    /\ pc' = "ret"
    /\ elapsed' = 0
    /\ fetchAt' = -1
    /\ UNCHANGED <<abandoned, moreVars, video_url, req, image_data, tasks, ti, out, ci, tried, response,
                   inflight, submitted, nSubmits, pollVars, brandVars>>

(***************************************************************************)
(* The handler after runSingle                                             *)
(***************************************************************************)
\* JavaScript truthiness of out.image_url
HasUrl(r) == ~Falsy(r.image_url)

\* batch_count === 1: the response to runSingle's outcome.  A thrown error, and the
\* "unexpected empty output" thrown here, reach the handler's catch: status 502
SingleResponse(r) ==
    IF r.kind = "throw" THEN Resp(502, FALSE, r.error, "", JNull, <<>>, FALSE)
    ELSE IF HasUrl(r) THEN Resp(200, TRUE, NoError, r.model, r.image_url, <<>>, FALSE)
    ELSE IF r.error # NoError /\ r.status = 502 THEN Resp(502, FALSE, r.error, "", JNull, <<>>, FALSE)
    ELSE Resp(502, FALSE, Error("unexpected", "", "unexpected empty output"), "", JNull, <<>>, FALSE)

StudioSingleRespond ==
    /\ pc = "ret"
    /\ ~IsBatch(req)
    /\ response' = SingleResponse(ret)
    /\ ret' = NoRet
    /\ tried' = <<>>
    /\ p' = NoJob
    /\ pc' = "done"
    /\ ci' = 0
    /\ submitted' = <<>>
    /\ inflight' = {}
    /\ UNCHANGED <<abandoned, moreVars, video_url, req, image_data, tasks, ti, out, elapsed, err,
                   nSubmits, fetchAt, pollVars, brandVars>>

\* out.push({ ok: true, ...(await runSingle(t)) }) / catch: out.push({ ok: false, error })
Entry(r) ==
    IF r.kind = "throw"
    THEN [ok |-> FALSE, image_url |-> JNull, model |-> "", tried |-> <<>>, hasTried |-> FALSE,
          error |-> r.error, status |-> 0]
    ELSE [ok |-> TRUE, image_url |-> r.image_url, model |-> r.model, tried |-> r.tried,
          hasTried |-> r.hasTried, error |-> r.error, status |-> r.status]

\* for (const t of tasks): the task after task i
NextTask_skipsOne(i) == i + 2
NextTask(i) == i + 1

\* one turn of for (const t of tasks)
BatchCollect ==
    /\ pc = "ret"
    /\ IsBatch(req)
    /\ out' = Append(out, Entry(ret))
    /\ ret' = NoRet
    /\ tried' = <<>>
    /\ p' = NoJob
    /\ IF ti < Len(tasks)
       THEN ti' = NextTask(ti) /\ pc' = "run"
       ELSE ti' = ti /\ pc' = "finish"
    /\ ci' = 0
    /\ submitted' = <<>>
    /\ inflight' = {}
    /\ UNCHANGED <<abandoned, moreVars, video_url, req, image_data, tasks, elapsed, err, response,
                   nSubmits, fetchAt, pollVars, brandVars>>

\* the URL of the last entry that is ok and has one
FirstOk_last(entries) ==
    LET oks == {i \in 1..Len(entries) : entries[i].ok /\ HasUrl(entries[i])}
    IN  IF oks = {} THEN JNull
        ELSE entries[CHOOSE i \in oks : \A k \in oks : k <= i].image_url

\* out.find((x) => x.ok && x.image_url)
RECURSIVE FirstOk(_)
FirstOk(entries) ==
    IF entries = <<>> THEN JNull
    ELSE IF Head(entries).ok /\ HasUrl(Head(entries)) THEN Head(entries).image_url
    ELSE FirstOk(Tail(entries))

\* res.json({ ok: true, success: true, mode: action, batch: out, image_url? })
BatchRespond ==
    /\ pc = "finish"
    /\ response' = Resp(200, TRUE, NoError, "", FirstOk(out), out, TRUE)
    /\ pc' = "done"
    /\ UNCHANGED <<abandoned, moreVars, video_url, req, image_data, tasks, ti, out, ci, tried, elapsed, p, err, ret,
                   inflight, submitted, nSubmits, fetchAt, pollVars, brandVars>>

(***************************************************************************)
(* POST /api/brand-post: the image chain (a version candidate, then the    *)
(* FLUX slug).  req.idea is the trimmed idea, as chunks; the caption step  *)
(* leaves a non-empty vprompt on both of its paths and is not followed.    *)
(***************************************************************************)
FunWords == {"halloween", "kids", "pizza", "party", "fun", "gymnastics"}

\* s.toLowerCase(), over the words the model writes with capitals
toLowerCase_asIs(s) == s
toLowerCase(s) ==
    CASE s = "SDXL" -> "sdxl"
      [] s = "Flux" -> "flux"
      [] s = "Realistic" -> "realistic"
      [] s = "ILLUSTRATED" -> "illustrated"
      [] s = "Pizza" -> "pizza"
      [] s = "Night" -> "night"
      [] OTHER -> s

\* String(v || "auto"): an absent, null or empty value is the empty text here
OrAuto(v) == IF v = "" THEN "auto" ELSE v

\* /halloween|kids|pizza|party|fun|gymnastics/i.test(idea)
isFun(idea) == \E i \in 1..Len(idea) : toLowerCase(idea[i]) \in FunWords

\* const modelKey = (() => { ... })()
modelKey(r) ==
    IF r.image_model_hint \in {"sdxl", "flux"} THEN r.image_model_hint
    ELSE IF r.style \in {"cartoon3d", "illustrated"} THEN "flux"
    ELSE IF r.style \in {"futuristic", "realistic"} THEN "sdxl"
    ELSE IF isFun(r.idea) THEN "flux" ELSE "sdxl"

NoCandidate == ""
FluxVersion == "FLUX(version)"
SdxlVersion == "SDXL(version)"
FluxSlug == "FLUX(slug)"

\* the first try block: FLUX by version, else SDXL by version, else nothing
VersionCandidate(r) ==
    IF modelKey(r) = "flux" /\ r.versionFlux THEN FluxVersion
    ELSE IF r.versionSdxl THEN SdxlVersion
    ELSE NoCandidate

\* replicateCreate: the guards that precede the POST
ReplicateCreateGuard(token, hasVersion) ==
    IF ~token THEN Error("config", "", "Missing REPLICATE_API_TOKEN")
    ELSE IF ~hasVersion THEN Error("config", "", "Missing Replicate model version")
    ELSE NoError

\* Array.isArray(job.output) ? job.output[0] : job.output
FirstOutput(output) ==
    IF output.t = "arr"
    THEN (IF output.items = <<>> THEN JNull ELSE output.items[1])
    ELSE output

\* options.image !== false && !textOnly
WantImage(r) == r.options_image /\ ~r.text_only

\* if (!idea) return res.status(400)
BrandMissingIdea ==
    /\ pc = "b_recv"
    /\ req.idea = <<>>
    /\ response' = Resp(400, FALSE, Error("validation", "", "Missing 'idea' (or 'prompt')"), "", JNull, <<>>, FALSE)
    /\ pc' = "done"
    /\ UNCHANGED <<abandoned, moreVars, video_url, req, image_data, tasks, ti, out, ci, tried, elapsed, p, err, ret,
                   inflight, submitted, nSubmits, fetchAt, pollVars, brandVars>>

\* an error raised before the chain (new OpenAI(...)) reaches the handler's catch
BrandThrows ==
    /\ pc = "b_recv"
    /\ req.idea # <<>>
    /\ response' = Resp(500, FALSE, Error("internal", "", NoDetail), "", JNull, <<>>, FALSE)
    /\ pc' = "done"
    /\ UNCHANGED <<abandoned, moreVars, video_url, req, image_data, tasks, ti, out, ci, tried, elapsed, p, err, ret,
                   inflight, submitted, nSubmits, fetchAt, pollVars, brandVars>>

\* the options, the caption step, then let image_url = null, modelTried = [], modelError = null
BrandPrepare ==
    /\ pc = "b_recv"
    /\ req.idea # <<>>
    /\ image_url' = JNull
    /\ modelTried' = <<>>
    /\ modelError' = NoError
    /\ pc' = IF WantImage(req) THEN "b_version" ELSE "b_respond"
    /\ UNCHANGED <<abandoned, moreVars, video_url, req, image_data, tasks, ti, out, ci, tried, elapsed, p, err, ret, response,
                   inflight, submitted, nSubmits, fetchAt, pollVars>>

\* the first try block up to the POST of replicateCreate; catch (e) { modelError = String(e) }
BrandVersion ==
    /\ pc = "b_version"
    /\ IF VersionCandidate(req) = NoCandidate
       THEN /\ pc' = "b_check"
            /\ UNCHANGED <<modelTried, modelError, submitted, inflight, nSubmits, pollVars>>
       ELSE /\ modelTried' = Append(modelTried, VersionCandidate(req))
            /\ IF ReplicateCreateGuard(req.token, TRUE) # NoError
               THEN /\ modelError' = ReplicateCreateGuard(req.token, TRUE)
                    /\ pc' = "b_check"
                    /\ UNCHANGED <<submitted, inflight, nSubmits, pollVars>>
               ELSE /\ submitted' = Append(submitted, VersionCandidate(req))
                    /\ inflight' = inflight \cup {VersionCandidate(req)}
                    /\ nSubmits' = nSubmits + 1
                    /\ PollCall(Absent)
                    /\ pc' = "b_vpoll"
                    /\ UNCHANGED modelError
    /\ UNCHANGED <<abandoned, moreVars, video_url, req, image_data, tasks, ti, out, ci, tried, elapsed, p, err, ret, response,
                   fetchAt, image_url>>

\* the POST of replicateCreate is answered with a non-ok HTTP status: fetchJson throws
BrandVersionHttpError ==
    /\ pc = "b_version"
    /\ VersionCandidate(req) # NoCandidate
    /\ ReplicateCreateGuard(req.token, TRUE) = NoError
    /\ modelTried' = Append(modelTried, VersionCandidate(req))
    /\ submitted' = Append(submitted, VersionCandidate(req))
    /\ nSubmits' = nSubmits + 1
    /\ modelError' = HttpError
    /\ pc' = "b_check"
    /\ UNCHANGED <<abandoned, moreVars, video_url, req, image_data, tasks, ti, out, ci, tried, elapsed, p, err, ret, response,
                   inflight, fetchAt, pollVars, image_url>>

\* replicatePredict ends: image_url = first output, or catch (e) { modelError = String(e) }
BrandVersionDone ==
    /\ pc = "b_vpoll"
    /\ PollEnded
    /\ IF pollPc = "returned"
       THEN image_url' = FirstOutput(pollResult.job.output) /\ UNCHANGED modelError
       ELSE modelError' = pollResult.error /\ UNCHANGED image_url
    /\ inflight' = {}
    /\ PollExit
    /\ pc' = "b_check"
    /\ UNCHANGED <<abandoned, moreVars, video_url, req, image_data, tasks, ti, out, ci, tried, elapsed, p, err, ret, response,
                   submitted, nSubmits, fetchAt, modelTried>>

\* if (!image_url)
BrandCheck ==
    /\ pc = "b_check"
    /\ pc' = IF Falsy(image_url) THEN "b_slug" ELSE "b_respond"
    /\ UNCHANGED <<abandoned, moreVars, video_url, req, image_data, tasks, ti, out, ci, tried, elapsed, p, err, ret, response,
                   inflight, submitted, nSubmits, fetchAt, pollVars, brandVars>>

\* catch (e) { if (!modelError) modelError = String(e) }
KeepFirst(kept, e) == IF kept = NoError THEN e ELSE kept

\* tryFluxBySlug up to the POST of replicateCreateBySlug
BrandSlug ==
    /\ pc = "b_slug"
    /\ modelTried' = Append(modelTried, FluxSlug)
    /\ IF CreateGuard(req.token, FluxSchnell) # NoError
       THEN /\ modelError' = KeepFirst(modelError, CreateGuard(req.token, FluxSchnell))
            /\ pc' = "b_respond"
            /\ UNCHANGED <<submitted, inflight, nSubmits, pollVars>>
       ELSE /\ submitted' = Append(submitted, FluxSlug)
            /\ inflight' = inflight \cup {FluxSlug}
            /\ nSubmits' = nSubmits + 1
            /\ PollCall(Absent)
            /\ pc' = "b_spoll"
            /\ UNCHANGED modelError
    /\ UNCHANGED <<abandoned, moreVars, video_url, req, image_data, tasks, ti, out, ci, tried, elapsed, p, err, ret, response,
                   fetchAt, image_url>>

\* the POST of replicateCreateBySlug is answered with a non-ok HTTP status
BrandSlugHttpError ==
    /\ pc = "b_slug"
    /\ CreateGuard(req.token, FluxSchnell) = NoError
    /\ modelTried' = Append(modelTried, FluxSlug)
    /\ submitted' = Append(submitted, FluxSlug)
    /\ nSubmits' = nSubmits + 1
    /\ modelError' = KeepFirst(modelError, HttpError)
    /\ pc' = "b_respond"
    /\ UNCHANGED <<abandoned, moreVars, video_url, req, image_data, tasks, ti, out, ci, tried, elapsed, p, err, ret, response,
                   inflight, fetchAt, pollVars, image_url>>

\* pollPredictionByUrl(job?.urls?.get) ends
BrandSlugDone ==
    /\ pc = "b_spoll"
    /\ PollEnded
    /\ IF pollPc = "returned"
       THEN image_url' = FirstOutput(pollResult.job.output) /\ UNCHANGED modelError
       ELSE modelError' = KeepFirst(modelError, pollResult.error) /\ UNCHANGED image_url
    /\ inflight' = {}
    /\ PollExit
    /\ pc' = "b_respond"
    /\ UNCHANGED <<abandoned, moreVars, video_url, req, image_data, tasks, ti, out, ci, tried, elapsed, p, err, ret, response,
                   submitted, nSubmits, fetchAt, modelTried>>

\* res.json({ ok: true, image_url, model_used, model_tried,
\*            model_error: image_url ? null : modelError || null, ... })
BrandResponse(url, log, e, key) ==
    [Resp(200, TRUE, IF Falsy(url) THEN e ELSE NoError, key, url, <<>>, FALSE)
        EXCEPT !.model_tried = log]

BrandRespond ==
    /\ pc = "b_respond"
    /\ response' = BrandResponse(image_url, modelTried, modelError, modelKey(req))
    /\ pc' = "done"
    /\ UNCHANGED <<abandoned, moreVars, video_url, req, image_data, tasks, ti, out, ci, tried, elapsed, p, err, ret,
                   inflight, submitted, nSubmits, fetchAt, pollVars, brandVars>>

(***************************************************************************)
(* POST /api/video-reels: the video attempts (a model slug named by the    *)
(* request, then the configured video version) and the still image that    *)
(* stands in when they leave no video.  Every attempt sits in its own      *)
(* try { } catch {}: its error is dropped.  The caption step leaves the    *)
(* visual prompt and is not followed.                                      *)
(***************************************************************************)
VideoSlug == "VIDEO(slug)"
VideoVersion == "VIDEO(version)"
StillFlux == "STILL(flux)"
StillSdxl == "STILL(sdxl)"

\* chooseImageModelKey({ idea, style, hint })
chooseImageModelKey_echoesHint(r) ==
    IF toLowerCase(OrAuto(r.image_model_hint)) # "auto" THEN toLowerCase(OrAuto(r.image_model_hint))
    ELSE IF isFun(r.idea) THEN "flux" ELSE "sdxl"
chooseImageModelKey_keywordsFirst(r) ==
    IF toLowerCase(OrAuto(r.image_model_hint)) \in {"sdxl", "flux"}
    THEN toLowerCase(OrAuto(r.image_model_hint))
    ELSE IF isFun(r.idea) THEN "flux"
    ELSE IF toLowerCase(OrAuto(r.style)) \in {"cartoon3d", "illustrated"} THEN "flux"
    ELSE "sdxl"
chooseImageModelKey(r) ==
    IF toLowerCase(OrAuto(r.image_model_hint)) \in {"sdxl", "flux"}
    THEN toLowerCase(OrAuto(r.image_model_hint))
    ELSE IF toLowerCase(OrAuto(r.style)) \in {"cartoon3d", "illustrated"} THEN "flux"
    ELSE IF toLowerCase(OrAuto(r.style)) \in {"futuristic", "realistic"} THEN "sdxl"
    ELSE IF isFun(r.idea) THEN "flux" ELSE "sdxl"

\* const opts = force_video ? { ...optsIn, image: false } : optsIn;  opts.image !== false
OptsImage(r) == IF r.force_video THEN FALSE ELSE r.options_image

\* versionImg: the version of the chosen key only, configured or not
versionImg(r) == IF chooseImageModelKey(r) = "flux" THEN r.versionFlux ELSE r.versionSdxl

StillLabel(r) == IF chooseImageModelKey(r) = "flux" THEN StillFlux ELSE StillSdxl

\* typeof out === "string" ? out : Array.isArray(out) ? out[0] : null
ReelOutput(output) ==
    IF output.t = "str" THEN output
    ELSE IF output.t = "arr" THEN (IF output.items = <<>> THEN JNull ELSE output.items[1])
    ELSE JNull

\* x || null
OrNull(v) == IF Falsy(v) THEN JNull ELSE v

\* mode: video_url ? "video" : image_url ? "image_fallback" : "text_only"
ReelsMode_stillAsVideo(video, image) ==
    IF ~Falsy(video) \/ ~Falsy(image) THEN "video" ELSE "text_only"
ReelsMode(video, image) ==
    IF ~Falsy(video) THEN "video" ELSE IF ~Falsy(image) THEN "image_fallback" ELSE "text_only"

ReelsResponse(mode, video, image) ==
    [Resp(200, TRUE, NoError, "", image, <<>>, FALSE) EXCEPT !.video_url = video, !.mode = mode]

\* what a video-reels step leaves alone besides its own locals
reelFrame == <<abandoned, moreVars, req, image_data, tasks, ti, out, ci, tried, elapsed, p, err, ret,
               fetchAt, modelTried, modelError>>

\* if (!idea) return res.status(400)
ReelsMissingIdea ==
    /\ pc = "v_recv"
    /\ req.idea = <<>>
    /\ response' = Resp(400, FALSE, Error("validation", "", "Missing 'idea'"), "", JNull, <<>>, FALSE)
    /\ pc' = "done"
    /\ UNCHANGED <<reelFrame, inflight, submitted, nSubmits, pollVars, image_url, video_url>>

\* an error raised outside the attempts (new OpenAI(...)) reaches the handler's catch
ReelsThrows ==
    /\ pc = "v_recv"
    /\ req.idea # <<>>
    /\ ~req.image_only
    /\ response' = Resp(500, FALSE, Error("internal", "", NoDetail), "", JNull, <<>>, FALSE)
    /\ pc' = "done"
    /\ UNCHANGED <<reelFrame, inflight, submitted, nSubmits, pollVars, image_url, video_url>>

\* `${idea}. Clean. AR ${ratio}.`
FallbackPrompt(idea) == JStr(idea \o <<". Clean. AR ", "9:16", ".">>)
\* a visual_prompt the caption model wrote
WrittenPrompt == JStr(<<"a bright kitchen, text-safe area">>)

\* if (!image_only) { ... }: vprompt is what the caption model wrote, or the
\* fallback text when that is empty or the call throws; an image_only request skips
\* the step and vprompt stays null
Captioned(r) ==
    IF r.image_only THEN {JNull} ELSE {WrittenPrompt, FallbackPrompt(r.idea)}

\* the options and the caption step, then the branch the request takes:
\* text_only, force_video, image_only (when opts.image !== false), else the full path
ReelsPrepare ==
    /\ pc = "v_recv"
    /\ req.idea # <<>>
    /\ vprompt' \in Captioned(req)
    /\ video_url' = JNull
    /\ image_url' = JNull
    /\ pc' = IF req.text_only THEN "v_respond"
             ELSE IF req.force_video THEN "v_slug"
             ELSE IF req.image_only /\ OptsImage(req) THEN "v_still"
             ELSE "v_slug"
    /\ UNCHANGED <<abandoned, incomingImage, fn, fnOut, iso, payVars, req, image_data, tasks, ti, out,
                   ci, tried, elapsed, p, err, ret, fetchAt, modelTried, modelError,
                   response, inflight, submitted, nSubmits, pollVars>>

\* pollPredictionByUrl(job?.urls?.get, { tries: 240, delayMs: 1500 })
SlugPollTries == 240

\* if (videoSlug) try { replicateCreateBySlug(videoSlug, ...) up to its POST
ReelsSlug ==
    /\ pc = "v_slug"
    /\ IF req.videoSlug = "" \/ CreateGuard(req.token, req.videoSlug) # NoError
       THEN /\ pc' = "v_video"
            /\ UNCHANGED <<submitted, inflight, nSubmits, pollVars>>
       ELSE /\ submitted' = Append(submitted, VideoSlug)
            /\ inflight' = inflight \cup {VideoSlug}
            /\ nSubmits' = nSubmits + 1
            /\ PollCall(SlugPollTries)
            /\ pc' = "v_spoll"
    /\ UNCHANGED <<reelFrame, response, image_url, video_url>>

\* the POST of replicateCreateBySlug is answered with a non-ok HTTP status: catch {}
ReelsSlugHttpError ==
    /\ pc = "v_slug"
    /\ req.videoSlug # ""
    /\ CreateGuard(req.token, req.videoSlug) = NoError
    /\ submitted' = Append(submitted, VideoSlug)
    /\ nSubmits' = nSubmits + 1
    /\ pc' = "v_video"
    /\ UNCHANGED <<reelFrame, response, inflight, pollVars, image_url, video_url>>

\* pollPredictionByUrl(job?.urls?.get, { tries: 240 }) ends: video_url = ..., or catch {}
ReelsSlugDone ==
    /\ pc = "v_spoll"
    /\ PollEnded
    /\ video_url' = IF pollPc = "returned" THEN ReelOutput(pollResult.job.output) ELSE video_url
    /\ inflight' = {}
    /\ PollExit
    /\ pc' = "v_video"
    /\ UNCHANGED <<reelFrame, response, submitted, nSubmits, image_url>>

\* if (!video_url && process.env.REPLICATE_MODEL_VERSION_VIDEO) try { replicatePredict(...)
ReelsVideo ==
    /\ pc = "v_video"
    /\ IF ~Falsy(video_url) \/ ~req.versionVideo
          \/ ReplicateCreateGuard(req.token, TRUE) # NoError
       THEN /\ pc' = "v_after"
            /\ UNCHANGED <<submitted, inflight, nSubmits, pollVars>>
       ELSE /\ submitted' = Append(submitted, VideoVersion)
            /\ inflight' = inflight \cup {VideoVersion}
            /\ nSubmits' = nSubmits + 1
            /\ PollCall(Absent)
            /\ pc' = "v_vpoll"
    /\ UNCHANGED <<reelFrame, response, image_url, video_url>>

\* the POST of replicateCreate is answered with a non-ok HTTP status: catch {}
ReelsVideoHttpError ==
    /\ pc = "v_video"
    /\ Falsy(video_url)
    /\ req.versionVideo
    /\ ReplicateCreateGuard(req.token, TRUE) = NoError
    /\ submitted' = Append(submitted, VideoVersion)
    /\ nSubmits' = nSubmits + 1
    /\ pc' = "v_after"
    /\ UNCHANGED <<reelFrame, response, inflight, pollVars, image_url, video_url>>

\* replicatePredict ends: video_url = ..., or catch {}
ReelsVideoDone ==
    /\ pc = "v_vpoll"
    /\ PollEnded
    /\ video_url' = IF pollPc = "returned" THEN ReelOutput(pollResult.job.output) ELSE video_url
    /\ inflight' = {}
    /\ PollExit
    /\ pc' = "v_after"
    /\ UNCHANGED <<reelFrame, response, submitted, nSubmits, image_url>>

\* after the video attempts: the forced branch answers; the full path goes on to
\* if (!video_url && opts.image !== false)
ReelsCheck ==
    /\ pc = "v_after"
    /\ pc' = IF ~req.force_video /\ Falsy(video_url) /\ OptsImage(req) THEN "v_still" ELSE "v_respond"
    /\ UNCHANGED <<reelFrame, response, inflight, submitted, nSubmits, pollVars, image_url, video_url>>

\* if (versionImg) { try { replicatePredict(versionImg, inputI) up to its POST
ReelsStill ==
    /\ pc = "v_still"
    /\ IF ~versionImg(req) \/ ReplicateCreateGuard(req.token, TRUE) # NoError
       THEN /\ pc' = "v_respond"
            /\ UNCHANGED <<submitted, inflight, nSubmits, pollVars>>
       ELSE /\ submitted' = Append(submitted, StillLabel(req))
            /\ inflight' = inflight \cup {StillLabel(req)}
            /\ nSubmits' = nSubmits + 1
            /\ PollCall(Absent)
            /\ pc' = "v_ipoll"
    /\ UNCHANGED <<reelFrame, response, image_url, video_url>>

\* the POST of replicateCreate is answered with a non-ok HTTP status: catch {}
ReelsStillHttpError ==
    /\ pc = "v_still"
    /\ versionImg(req)
    /\ ReplicateCreateGuard(req.token, TRUE) = NoError
    /\ submitted' = Append(submitted, StillLabel(req))
    /\ nSubmits' = nSubmits + 1
    /\ pc' = "v_respond"
    /\ UNCHANGED <<reelFrame, response, inflight, pollVars, image_url, video_url>>

\* replicatePredict ends: image_url = ..., or catch {}
ReelsStillDone ==
    /\ pc = "v_ipoll"
    /\ PollEnded
    /\ image_url' = IF pollPc = "returned" THEN ReelOutput(pollResult.job.output) ELSE image_url
    /\ inflight' = {}
    /\ PollExit
    /\ pc' = "v_respond"
    /\ UNCHANGED <<reelFrame, response, submitted, nSubmits, video_url>>

\* the res.json / res.status(502) of the branch the request took
ReelsAnswer_forcedDegrades(r, video, image) ==
    IF r.text_only THEN ReelsResponse("text_only", JNull, JNull)
    ELSE IF r.image_only /\ OptsImage(r) THEN ReelsResponse("image_only", JNull, OrNull(image))
    ELSE ReelsResponse(ReelsMode(video, image), OrNull(video), OrNull(image))
ReelsAnswer(r, video, image) ==
    IF r.text_only THEN ReelsResponse("text_only", JNull, JNull)
    ELSE IF r.force_video THEN
        IF Falsy(video)
        THEN Resp(502, FALSE, Error("failed", "", "Video generation failed (forced)"), "", JNull, <<>>, FALSE)
        ELSE ReelsResponse("video", video, JNull)
    ELSE IF r.image_only /\ OptsImage(r) THEN ReelsResponse("image_only", JNull, OrNull(image))
    ELSE ReelsResponse(ReelsMode(video, image), OrNull(video), OrNull(image))

ReelsRespond ==
    /\ pc = "v_respond"
    /\ response' = ReelsAnswer(req, video_url, image_url)
    /\ pc' = "done"
    /\ UNCHANGED <<reelFrame, inflight, submitted, nSubmits, pollVars, image_url, video_url>>

NoCall == [name |-> "none"]
NoFrames == <<>>

\* no request at the paywall, no key on record
NoKeys == <<>>
NoGate == <<>>
PayIdle ==
    /\ PAYWALL_ENABLED = FALSE
    /\ KEY_MAP = NoKeys
    /\ inheritedUsed = JsUndefined
    /\ gate = NoGate

MoreIdle ==
    /\ incomingImage = JNull
    /\ fn = NoCall
    /\ fnOut = <<>>
    /\ iso = NoFrames
    /\ PayIdle
    /\ vprompt = JNull

PollIdle ==
    /\ pollPc = "idle"
    /\ pollTries = 0
    /\ pollI = 0
    /\ pollLast = NoJob
    /\ pollResult = [job |-> NoJob, error |-> NoError]
    /\ pollFetches = 0
    /\ pollSleeps = 0

StudioIdle ==
    /\ req = NoRequest
    /\ pc = "idle"
    /\ image_data = FALSE
    /\ tasks = <<>>
    /\ ti = 0
    /\ out = <<>>
    /\ ci = 0
    /\ tried = <<>>
    /\ elapsed = 0
    /\ p = NoJob
    /\ err = NoError
    /\ ret = NoRet
    /\ response = NoResponse
    /\ inflight = {}
    /\ submitted = <<>>
    /\ nSubmits = 0
    /\ fetchAt = -1
    /\ modelTried = <<>>
    /\ modelError = NoError
    /\ image_url = JNull
    /\ video_url = JNull

(***************************************************************************)
(* POST /api/video-studio: image to video.  A string is the sequence of    *)
(* its pieces ("data:", a media type, ";base64,", ",", a payload, ...).    *)
(***************************************************************************)
Blank == " "
MediaTypes == {"image/png", "image/jpeg"}
Base64Marker == ";base64,"

\* s.trim()
RECURSIVE TrimStart(_)
TrimStart(s) == IF s # <<>> /\ Head(s) = Blank THEN TrimStart(Tail(s)) ELSE s
RECURSIVE TrimEnd(_)
TrimEnd(s) ==
    IF s # <<>> /\ s[Len(s)] = Blank THEN TrimEnd(SubSeq(s, 1, Len(s) - 1)) ELSE s
Trim(s) == TrimEnd(TrimStart(s))

\* s.startsWith("data:")
StartsWithData(s) == s # <<>> /\ s[1] = "data:"

\* /data:[^;]+;base64,/.test(s): "data:", then one piece or more with no ';',
\* then ";base64,"
HasMarker(s) ==
    \E i \in 1..Len(s) : \E j \in (i + 2)..Len(s) :
        /\ s[i] = "data:"
        /\ s[j] = Base64Marker
        /\ \A k \in (i + 1)..(j - 1) : s[k] # Base64Marker

HasComma(piece) == piece \in {",", Base64Marker}

\* the index of the first piece of s after the first that holds a comma, 0 when none
RECURSIVE FirstComma(_, _)
FirstComma(s, k) ==
    IF k > Len(s) THEN 0 ELSE IF HasComma(s[k]) THEN k ELSE FirstComma(s, k + 1)

\* s.replace(/^data:[^,]+,/, ""): "data:", one character or more that is no
\* comma, then the first comma
StripHeader(s) ==
    IF StartsWithData(s) /\ FirstComma(s, 2) # 0
       /\ ~(FirstComma(s, 2) = 2 /\ s[2] = ",")
    THEN SubSeq(s, FirstComma(s, 2) + 1, Len(s))
    ELSE s

\* makeDataUrlSafe without the .trim() of line 155
makeDataUrlSafe_untrimmed(dataUrl) ==
    IF ~StartsWithData(dataUrl.s) THEN JNull
    ELSE IF ~HasMarker(dataUrl.s)
    THEN JStr(<<"data:", "image/png", Base64Marker>> \o StripHeader(dataUrl.s))
    ELSE JStr(dataUrl.s)

\* makeDataUrlSafe(dataUrl)
makeDataUrlSafe(dataUrl) ==
    IF ~StartsWithData(Trim(dataUrl.s)) THEN JNull
    ELSE IF ~HasMarker(Trim(dataUrl.s))
    THEN JStr(<<"data:", "image/png", Base64Marker>> \o StripHeader(Trim(dataUrl.s)))
    ELSE JStr(Trim(dataUrl.s))

\* res.json({ ok: false, error }): an error answered with status 200
Refused(detail) == Resp(200, FALSE, Error("refused", "", detail), "", JNull, <<>>, FALSE)

\* const got = Array.isArray(out) ? out[0] : out
Got(output) ==
    IF output.t = "arr" THEN (IF output.items = <<>> THEN JNull ELSE output.items[1]) ELSE output

\* the handler up to the POST of replicateCreateBySlug: mode, the model slug, the
\* source image and its repair, the guards of replicateCreateBySlug
VideoStudioReceive ==
    /\ pc = "s_recv"
    /\ IF req.mode = "video"
       THEN /\ response' = Refused("Video mode not wired from frontend")
            /\ pc' = "done"
            /\ UNCHANGED <<incomingImage, submitted, inflight, nSubmits, pollVars>>
       ELSE IF req.slugI2V = ""
       THEN /\ response' = Refused("No I2V model configured.")
            /\ pc' = "done"
            /\ UNCHANGED <<incomingImage, submitted, inflight, nSubmits, pollVars>>
       ELSE IF Falsy(req.source)
       THEN /\ response' = Refused("Missing image_data_url")
            /\ pc' = "done"
            /\ UNCHANGED <<incomingImage, submitted, inflight, nSubmits, pollVars>>
       ELSE IF req.source.t # "str"
       THEN \* incomingImage.startsWith is not a function: the outer catch answers 500
            /\ response' = Resp(500, FALSE, Error("internal", "", NoDetail), "", JNull, <<>>, FALSE)
            /\ pc' = "done"
            /\ incomingImage' = req.source
            /\ UNCHANGED <<submitted, inflight, nSubmits, pollVars>>
       ELSE IF StartsWithData(req.source.s) /\ makeDataUrlSafe(req.source) = JNull
       THEN /\ response' = Refused("Bad data URL")
            /\ pc' = "done"
            /\ incomingImage' = req.source
            /\ UNCHANGED <<submitted, inflight, nSubmits, pollVars>>
       ELSE /\ incomingImage' = IF StartsWithData(req.source.s) THEN makeDataUrlSafe(req.source)
                                ELSE req.source
            /\ IF CreateGuard(req.token, req.slugI2V) # NoError
               THEN /\ response' = Refused("WAN 2.5 ERROR")
                    /\ pc' = "done"
                    /\ UNCHANGED <<submitted, inflight, nSubmits, pollVars>>
               ELSE /\ submitted' = Append(submitted, req.slugI2V)
                    /\ inflight' = inflight \cup {req.slugI2V}
                    /\ nSubmits' = nSubmits + 1
                    /\ PollCall(SlugPollTries)
                    /\ pc' = "s_poll"
                    /\ UNCHANGED response
    /\ UNCHANGED <<abandoned, payVars, vprompt, fn, fnOut, iso, req, image_data, tasks, ti, out, ci, tried, elapsed, p,
                   err, ret, fetchAt, brandVars, reelVars>>

\* the POST of replicateCreateBySlug is answered with a non-ok HTTP status: catch (e)
VideoStudioHttpError ==
    /\ pc = "s_recv"
    /\ req.mode # "video"
    /\ req.slugI2V # ""
    /\ req.source.t = "str"
    /\ ~Falsy(req.source)
    /\ CreateGuard(req.token, req.slugI2V) = NoError
    /\ incomingImage' = IF StartsWithData(req.source.s) THEN makeDataUrlSafe(req.source)
                        ELSE req.source
    /\ submitted' = Append(submitted, req.slugI2V)
    /\ nSubmits' = nSubmits + 1
    /\ response' = Refused("WAN 2.5 ERROR")
    /\ pc' = "done"
    /\ UNCHANGED <<abandoned, payVars, vprompt, fn, fnOut, iso, req, image_data, tasks, ti, out, ci, tried, elapsed, p,
                   err, ret, fetchAt, inflight, pollVars, brandVars, reelVars>>

\* pollPredictionByUrl ends: video_url = got, or catch (e); then the answer
VideoStudioDone ==
    /\ pc = "s_poll"
    /\ PollEnded
    /\ IF pollPc = "returned" /\ ~Falsy(Got(pollResult.job.output))
       THEN /\ video_url' = Got(pollResult.job.output)
            /\ response' = [Resp(200, TRUE, NoError, "", JNull, <<>>, FALSE)
                               EXCEPT !.video_url = Got(pollResult.job.output)]
       ELSE /\ response' = Refused("WAN 2.5 ERROR")
            /\ UNCHANGED video_url
    /\ inflight' = {}
    /\ PollExit
    /\ pc' = "done"
    /\ UNCHANGED <<abandoned, moreVars, req, image_data, tasks, ti, out, ci, tried, elapsed, p,
                   err, ret, fetchAt, submitted, nSubmits, brandVars>>

(***************************************************************************)
(* Helper functions called on their own, over payloads and arguments of    *)
(* every shape.                                                            *)
(***************************************************************************)
PlainText == JStr(<<"plain text">>)
UpperUrl == JStr(<<"HTTPS://", "replicate.delivery/OUT.PNG">>)
FtpUrl == JStr(<<"ftp://", "replicate.delivery/out.png">>)

\* the values a payload is built from
Leaves == {JNull, JNumber("5"), PlainText, OutUrl, AltUrl}
Elements ==
    Leaves \cup {JObj(<<>>), JArr(<<>>), JObj(<<JNull>>), JObj(<<PlainText, OutUrl>>),
                 JObj(<<AltUrl, OutUrl>>), JArr(<<OutUrl>>), JArr(<<PlainText, AltUrl>>)}
Items == UNION {[1..n -> Elements] : n \in 0..MaxItems}
Payloads ==
    Leaves \cup {JNumber("0"), JBool(TRUE), JBool(FALSE), JStr(<<>>), UpperUrl, FtpUrl}
           \cup {JArr(items) : items \in Items} \cup {JObj(items) : items \in Items}

PickUrlCall ==
    /\ fn.name = "pickUrl"
    /\ fnOut = <<>>
    /\ fnOut' = <<pickUrl(fn.arg)>>
    /\ UNCHANGED <<abandoned, payVars, vprompt, incomingImage, fn, iso, pollVars, studioVars, brandVars, reelVars>>

\* makeDataUrlSafe(dataUrl), then makeDataUrlSafe of what it returned
MakeSafeCall ==
    /\ fn.name = "makeDataUrlSafe"
    /\ Len(fnOut) < 2
    /\ fnOut' = Append(fnOut, makeDataUrlSafe(IF fnOut = <<>> THEN fn.arg ELSE fnOut[1]))
    /\ UNCHANGED <<abandoned, payVars, vprompt, incomingImage, fn, iso, pollVars, studioVars, brandVars, reelVars>>

\* the arguments handed to chooseImageModelKey: "" stands for absent / null / empty
RouterIdeas ==
    {<<>>, <<"pizza", "night">>, <<"Pizza", "Night">>, <<"quarterly", "report">>, <<"fun", "ny">>}
RouterStyles ==
    {"", "auto", "cartoon3d", "illustrated", "futuristic", "realistic", "Realistic",
     "ILLUSTRATED", "noir"}
RouterHints == {"", "auto", "sdxl", "flux", "SDXL", "Flux", "dalle", "5"}

\* chooseImageModelKey({ idea, style, hint }), called twice with the same argument
ChooseKeyCall ==
    /\ fn.name = "chooseImageModelKey"
    /\ Len(fnOut) < 2
    /\ fnOut' = Append(fnOut, chooseImageModelKey(fn.arg))
    /\ UNCHANGED <<abandoned, payVars, vprompt, incomingImage, fn, iso, pollVars, studioVars, brandVars, reelVars>>

InitChooseKey ==
    /\ PollIdle
    /\ StudioIdle
    /\ incomingImage = JNull
    /\ iso = NoFrames
    /\ PayIdle
    /\ vprompt = JNull
    /\ fn \in {[name |-> "chooseImageModelKey",
                 arg |-> [idea |-> i, style |-> st, image_model_hint |-> h]] :
                    i \in RouterIdeas, st \in RouterStyles, h \in RouterHints}
    /\ fnOut = <<>>

\* replicateCreate(version, input) / replicateCreateBySlug(slug, input) up to the
\* POST: the guard throws, or the job-creation request is sent
JobClientCall ==
    /\ fn.name \in {"replicateCreate", "replicateCreateBySlug"}
    /\ fnOut = <<>>
    /\ fnOut' = <<IF fn.name = "replicateCreate"
                  THEN ReplicateCreateGuard(fn.arg.token, fn.arg.id # "")
                  ELSE CreateGuard(fn.arg.token, fn.arg.id)>>
    /\ nSubmits' = IF fnOut'[1] = NoError THEN nSubmits + 1 ELSE nSubmits
    /\ UNCHANGED <<abandoned, payVars, vprompt, incomingImage, fn, iso, pollVars, brandVars, reelVars,
                   req, pc, image_data, tasks, ti, out, ci, tried, elapsed, p, err, ret,
                   response, inflight, submitted, fetchAt>>

InitJobClient ==
    /\ PollIdle
    /\ StudioIdle
    /\ incomingImage = JNull
    /\ iso = NoFrames
    /\ PayIdle
    /\ vprompt = JNull
    /\ fn \in {[name |-> n, arg |-> [token |-> t, id |-> id]] :
                    n \in {"replicateCreate", "replicateCreateBySlug"},
                    t \in BOOLEAN, id \in {"", FluxSchnell}}
    /\ fnOut = <<>>

(***************************************************************************)
(* TOKENS PER KEY and PAYWALL: consumeCredits and guardPaid, in front of   *)
(* /api/key-check and of the generation routes.  guardPaid is synchronous: *)
(* one request passes it in one step; the requests at the paywall pass it  *)
(* in any order, and their handlers end in any order.                      *)
(***************************************************************************)
\* process.env.PAYWALL_KEY
MasterKey == "MASTER-KEY"
\* a key that names no record of keys.json but a property every object inherits
ProtoKey == "__proto__"

\* one record of keys.json
Info(max, limit, credits, used) == [max |-> max, limit |-> limit, credits |-> credits, used |-> used]
NoInfo == [max |-> JsNull, limit |-> JsNull, credits |-> JsNull, used |-> JsNull]
\* Object.prototype, seen as a record: no limit, and the `used` the charges have left on it
ObjectPrototype(inherited) == Info(JsUndefined, JsUndefined, JsUndefined, inherited)

\* KEY_MAP[k] || null: an own record, else what the prototype chain has under k
getKeyInfo(map, inherited, k) ==
    IF k = "" THEN NoInfo
    ELSE IF k \in DOMAIN map THEN map[k]
    ELSE IF k = ProtoKey THEN ObjectPrototype(inherited)
    ELSE NoInfo

\* a || b
Or(a, b) == IF JsFalsy(a) THEN b ELSE a

\* Number(info.max || info.limit || info.credits || 0) || 0
MaxOf(info) ==
    LET n == ToNumber(Or(Or(Or(info.max, info.limit), info.credits), JsNum(0)))
    IN  IF JsFalsy(n) THEN 0 ELSE n.n

\* info.used: the record's own property, else the one inherited from Object.prototype
ReadUsed(info, inherited) == IF info.used = JsUndefined THEN inherited ELSE info.used

\* const used = Number(info.used || 0); `seen` is what the request read on arrival
UsedOf_onArrival(info, inherited, seen) == seen
UsedOf(info, inherited, seen) == ToNumber(Or(ReadUsed(info, inherited), JsNum(0))).n

\* max > 0 && used + amount > max
NoCredits(max, used, amount) == max > 0 /\ used + amount > max

\* info.used = used + amount; KEY_MAP[k] = info: on the record of k, or on the
\* inherited object when k names no record
Charge(map, k, used, amount) ==
    IF k \in DOMAIN map THEN [map EXCEPT ![k].used = JsNum(used + amount)] ELSE map
ChargeInherited(map, inherited, k, used, amount) ==
    IF k \in DOMAIN map THEN inherited ELSE JsNum(used + amount)

\* the request as the paywall sees it, and what has been done with it
AtGate(key, path) ==
    [key |-> key, path |-> path, pc |-> "new", seen |-> 0, status |-> 0, error |-> "",
     remaining |-> JsUndefined]

KeyCheckPath == "/api/key-check"
PaidPaths == {"/api/image-studio"}

\* the request reaches the server (its body is still being read)
PayArrive ==
    /\ \E i \in DOMAIN gate :
        /\ gate[i].pc = "new"
        /\ gate' = [gate EXCEPT ![i].pc = "arrived",
                                ![i].seen = UsedOf(getKeyInfo(KEY_MAP, inheritedUsed, gate[i].key),
                                                   inheritedUsed, 0)]
    /\ UNCHANGED <<abandoned, vprompt, PAYWALL_ENABLED, KEY_MAP, inheritedUsed, incomingImage, fn, fnOut, iso,
                   pollVars, studioVars, brandVars, reelVars>>

\* max > 0 ? Math.max(0, max - used) : null
Remaining(max, used) == IF max > 0 THEN JsNum(Max(0, max - used)) ELSE JsNull

\* guardPaid(req, res, next), consumeCredits(k, 1) included
guardPaid ==
    /\ \E i \in DOMAIN gate :
        LET g == gate[i]
            info == getKeyInfo(KEY_MAP, inheritedUsed, g.key)
            max == MaxOf(info)
            used == UsedOf(info, inheritedUsed, g.seen)
        IN  /\ g.pc = "arrived"
            /\ IF ~PAYWALL_ENABLED
               THEN /\ gate' = [gate EXCEPT ![i].pc = "admitted"]
                    /\ UNCHANGED <<KEY_MAP, inheritedUsed>>
               ELSE IF g.key # "" /\ g.key = MasterKey
               THEN /\ gate' = [gate EXCEPT ![i].pc = "admitted", ![i].remaining = JsNull]
                    /\ UNCHANGED <<KEY_MAP, inheritedUsed>>
               ELSE IF g.key = ""
               THEN /\ gate' = [gate EXCEPT ![i].pc = "answered", ![i].status = 402,
                                            ![i].error = "payment_required"]
                    /\ UNCHANGED <<KEY_MAP, inheritedUsed>>
               ELSE IF info = NoInfo
               THEN /\ gate' = [gate EXCEPT ![i].pc = "answered", ![i].status = 402,
                                            ![i].error = "invalid_key"]
                    /\ UNCHANGED <<KEY_MAP, inheritedUsed>>
               ELSE IF g.path = KeyCheckPath
               THEN /\ gate' = [gate EXCEPT ![i].pc = "admitted",
                                            ![i].remaining = Remaining(max, used)]
                    /\ UNCHANGED <<KEY_MAP, inheritedUsed>>
               ELSE IF NoCredits(max, used, 1)
               THEN /\ gate' = [gate EXCEPT ![i].pc = "answered", ![i].status = 402,
                                            ![i].error = "no_credits",
                                            ![i].remaining = JsNum(Max(0, max - used))]
                    /\ UNCHANGED <<KEY_MAP, inheritedUsed>>
               ELSE /\ KEY_MAP' = Charge(KEY_MAP, g.key, used, 1)
                    /\ inheritedUsed' = ChargeInherited(KEY_MAP, inheritedUsed, g.key, used, 1)
                    /\ gate' = [gate EXCEPT ![i].pc = "admitted",
                                            ![i].remaining = IF max > 0 THEN JsNum(max - (used + 1))
                                                             ELSE JsNull]
    /\ UNCHANGED <<abandoned, vprompt, PAYWALL_ENABLED, incomingImage, fn, fnOut, iso,
                   pollVars, studioVars, brandVars, reelVars>>

\* the route's handler answers: the key check with ok, a generation with its
\* result or with its failure; no credit is given back
PaidHandlerAnswers ==
    /\ \E i \in DOMAIN gate :
        /\ gate[i].pc = "admitted"
        /\ \E st \in (IF gate[i].path = KeyCheckPath THEN {200} ELSE {200, 502}) :
              gate' = [gate EXCEPT ![i].pc = "answered", ![i].status = st]
    /\ UNCHANGED <<abandoned, vprompt, PAYWALL_ENABLED, KEY_MAP, inheritedUsed, incomingImage, fn, fnOut, iso,
                   pollVars, studioVars, brandVars, reelVars>>

\* the keys the requests come with: none, the master key, a key of no record, the
\* inherited name, and the two keys on record
GateKeys == {"", MasterKey, "NOPE", ProtoKey, "TEST100", "VIP999"}

\* the records keys.json gives TEST100: each way of writing a limit, with and
\* without a `used` of its own, and no limit at all
TestRecords ==
    { Info(JsNum(2), JsUndefined, JsUndefined, JsNum(0)),
      Info(JsNum(1), JsUndefined, JsUndefined, JsUndefined),
      Info(JsUndefined, JsNum(1), JsUndefined, JsNum(0)),
      Info(JsNum(0), JsUndefined, JsNum(1), JsNum(0)),
      Info(JsNum(0), JsUndefined, JsUndefined, JsNum(0)),
      Info(JsUndefined, JsUndefined, JsUndefined, JsUndefined) }
VipRecord == Info(JsUndefined, JsUndefined, JsNum(1), JsNum(0))

InitPaywall ==
    /\ PollIdle
    /\ StudioIdle
    /\ incomingImage = JNull
    /\ fn = NoCall
    /\ fnOut = <<>>
    /\ iso = NoFrames
    /\ vprompt = JNull
    /\ PAYWALL_ENABLED \in BOOLEAN
    /\ KEY_MAP \in {[k \in {"TEST100", "VIP999"} |-> IF k = "TEST100" THEN t ELSE VipRecord] :
                        t \in TestRecords}
    /\ inheritedUsed = JsUndefined
    /\ gate \in {<<AtGate(k1, p1), AtGate(k2, p2)>> :
                    k1 \in GateKeys, k2 \in GateKeys,
                    p1 \in {KeyCheckPath} \cup PaidPaths, p2 \in {KeyCheckPath} \cup PaidPaths}

NextPaywall == PayArrive \/ guardPaid \/ PaidHandlerAnswers

(***************************************************************************)
(* Two image-studio requests in flight at once.  Everything the handler    *)
(* works on is declared inside the handler (the model lists, waitPrediction,*)
(* runSingle, tried), so each request has a frame of its own; the steps of *)
(* the two frames interleave at every await.  The provider fails the first *)
(* `fails` candidates of a request and answers the next one with its URL.  *)
(***************************************************************************)
Frame(action, hasImage, fails, url) ==
    [action |-> action, image_data |-> hasImage, fails |-> fails, url |-> url,
     pc |-> "run", ci |-> 0, tried |-> <<>>, ret |-> NoRet, response |-> NoResponse]

IsoTask == Task(<<"a red chair">>, JsNum(DEFAULT_STRENGTH), JsNull)

\* the status the provider gives for candidate i of the frame's request
Answer(f, i) ==
    IF i <= f.fails THEN Job("failed", JNull, NoDetail) ELSE Job("succeeded", f.url, NoDetail)

\* const tried = []: the attempt log of the runSingle call of request id
TriedOf_shared(frames, id) == frames[1].tried
TriedOf(frames, id) == frames[id].tried

\* runSingle starts: the validations, then the first candidate
IsoStart ==
    /\ \E id \in DOMAIN iso :
        LET f == iso[id]
            e == Validate(f.action, IsoTask, f.image_data)
        IN  /\ f.pc = "run"
            /\ iso' = [iso EXCEPT ![id] =
                  IF e # NoError
                  THEN [f EXCEPT !.ret = Thrown(e), !.pc = "ret"]
                  ELSE [f EXCEPT !.ci = 1, !.pc = "create"]]
    /\ UNCHANGED <<abandoned, payVars, vprompt, incomingImage, fn, fnOut, pollVars, studioVars, brandVars, reelVars>>

\* await replicateCreateBySlug(m.slug, inputX)
IsoCreate ==
    /\ \E id \in DOMAIN iso :
        /\ iso[id].pc = "create"
        /\ iso' = [iso EXCEPT ![id].pc = "wait"]
    /\ UNCHANGED <<abandoned, payVars, vprompt, incomingImage, fn, fnOut, pollVars, studioVars, brandVars, reelVars>>

\* await waitPrediction(...) ends: return, or the catch and the next candidate
IsoSettle ==
    /\ \E id \in DOMAIN iso :
        LET f == iso[id]
            cands == Candidates(f.action)
            j == Answer(f, f.ci)
            log == PushTried(TriedOf(iso, id), cands[f.ci], WaitFailure(j, cands[f.ci]))
        IN  /\ f.pc = "wait"
            /\ iso' = [iso EXCEPT ![id] =
                  IF WaitSucceeded(j.status)
                  THEN [f EXCEPT !.ret = IF f.action \in ChainActions
                                         THEN Returned(pickUrl(j.output), cands[f.ci], TriedOf(iso, id))
                                         ELSE ReturnedPlain(pickUrl(j.output), cands[f.ci]),
                                 !.pc = "ret"]
                  ELSE IF f.action \notin ChainActions
                  THEN [f EXCEPT !.ret = Thrown(WaitFailure(j, cands[f.ci])), !.pc = "ret"]
                  ELSE IF NextCandidate(f.ci) <= Len(cands)
                  THEN [f EXCEPT !.tried = log, !.ci = NextCandidate(f.ci), !.pc = "create"]
                  ELSE [f EXCEPT !.tried = log, !.ret = Exhausted(f.action), !.pc = "ret"]]
    /\ UNCHANGED <<abandoned, payVars, vprompt, incomingImage, fn, fnOut, pollVars, studioVars, brandVars, reelVars>>

\* the answer of the single request
IsoRespond ==
    /\ \E id \in DOMAIN iso :
        /\ iso[id].pc = "ret"
        /\ iso' = [iso EXCEPT ![id].response = SingleResponse(iso[id].ret), ![id].pc = "done"]
    /\ UNCHANGED <<abandoned, payVars, vprompt, incomingImage, fn, fnOut, pollVars, studioVars, brandVars, reelVars>>

\* the provider fails up to every candidate of the longest chain
MaxFails == Len(UPSCALE_MODELS)

\* the requests of a pair: an action, with or without its source image, and how
\* many of its candidates the provider fails
IsoFrames(url) ==
    {Frame(a, img, k, url) :
        a \in ChainActions \cup {"text2img"}, img \in BOOLEAN, k \in 0..MaxFails}

InitIso ==
    /\ PollIdle
    /\ StudioIdle
    /\ incomingImage = JNull
    /\ fn = NoCall
    /\ fnOut = <<>>
    /\ PayIdle
    /\ vprompt = JNull
    /\ iso \in {<<f1, f2>> : f1 \in IsoFrames(OutUrl), f2 \in IsoFrames(AltUrl)}

NextIso == IsoStart \/ IsoCreate \/ IsoSettle \/ IsoRespond

InitPickUrl ==
    /\ PollIdle
    /\ StudioIdle
    /\ incomingImage = JNull
    /\ iso = NoFrames
    /\ PayIdle
    /\ vprompt = JNull
    /\ fn \in {[name |-> "pickUrl", arg |-> x] : x \in Payloads}
    /\ fnOut = <<>>

\* the pieces a string handed to makeDataUrlSafe is made of
UrlPieces == {Blank, "data:", "image/png", Base64Marker, ",", "AAAA"}

RECURSIVE PieceSeqs(_)
PieceSeqs(n) ==
    IF n = 0 THEN {<<>>}
    ELSE PieceSeqs(n - 1) \cup {Append(s, c) : s \in {x \in PieceSeqs(n - 1) : Len(x) = n - 1}, c \in UrlPieces}

\* the arguments handed to makeDataUrlSafe: strings, and null
DataUrlInputs == {JStr(s) : s \in PieceSeqs(MaxPieces)} \cup {JNull}

InitMakeSafe ==
    /\ PollIdle
    /\ StudioIdle
    /\ incomingImage = JNull
    /\ iso = NoFrames
    /\ PayIdle
    /\ vprompt = JNull
    /\ fn \in {[name |-> "makeDataUrlSafe", arg |-> x] : x \in DataUrlInputs}
    /\ fnOut = <<>>

(***************************************************************************)
(* Requests                                                                *)
(***************************************************************************)
Prompts == {<<>>, <<"a red chair">>}
NumericWaits == {MwNum(k * SleepMs) : k \in 0..MaxWaitSteps}
AnyWaits == NumericWaits \cup {MwUndefined, MwNull, MwText, MwNum(-1)}

BatchCounts == {JsUndefined} \cup {JsNum(k) : k \in 1..MaxBatchCount}

\* requests that exercise the token guard, the source fetch and the validations
PromptRequests ==
    [route : {"image-studio"}, token : BOOLEAN,
     action : {"text2img", "img2img", "inpaint", "add_object", "sketch"},
     promptRaw : Prompts, angles : {<<>>, <<"front">>}, camera_path : {"none"},
     image : {"none", "inline", "url"}, mask : {"none"},
     batch_count : BatchCounts, max_wait_ms : NumericWaits,
     seed : {JsUndefined}, seed_lock : {FALSE}, strength : {JsUndefined},
     idea : {<<>>}, image_model_hint : {"auto"}, style : {"auto"}, options_image : {TRUE}, text_only : {FALSE},
     versionFlux : {FALSE}, versionSdxl : {FALSE},
     image_only : {FALSE}, force_video : {FALSE}, videoSlug : {""}, versionVideo : {FALSE},
     source : {JNull}, mode : {""}, slugI2V : {""}]

\* single requests under every kind of max_wait_ms
WaitRequests ==
    [route : {"image-studio"}, token : {TRUE},
     action : {"text2img", "inpaint"},
     promptRaw : {<<"a red chair">>}, angles : {<<>>}, camera_path : {"none", "orbit"},
     image : {"inline"}, mask : {"none", "url"},
     batch_count : {JsUndefined}, max_wait_ms : AnyWaits,
     seed : {JsUndefined}, seed_lock : {FALSE}, strength : {JsUndefined},
     idea : {<<>>}, image_model_hint : {"auto"}, style : {"auto"}, options_image : {TRUE}, text_only : {FALSE},
     versionFlux : {FALSE}, versionSdxl : {FALSE},
     image_only : {FALSE}, force_video : {FALSE}, videoSlug : {""}, versionVideo : {FALSE},
     source : {JNull}, mode : {""}, slugI2V : {""}]

\* requests over the fallback chains
ChainRequests ==
    [route : {"image-studio"}, token : {TRUE},
     action : ChainActions,
     promptRaw : {<<>>}, angles : {<<>>}, camera_path : {"none"},
     image : {"none", "inline"}, mask : {"none"},
     batch_count : BatchCounts, max_wait_ms : {MwNum(SleepMs)},
     seed : {JsUndefined}, seed_lock : {FALSE}, strength : {JsUndefined},
     idea : {<<>>}, image_model_hint : {"auto"}, style : {"auto"}, options_image : {TRUE}, text_only : {FALSE},
     versionFlux : {FALSE}, versionSdxl : {FALSE},
     image_only : {FALSE}, force_video : {FALSE}, videoSlug : {""}, versionVideo : {FALSE},
     source : {JNull}, mode : {""}, slugI2V : {""}]

\* requests that plan and run without the provider (add_object; an edit with no
\* source image), over the batch sizes, seeds, camera paths and strengths
PlanBody(action, count, seed, lock, path, angles, strength) ==
    [NoRequest EXCEPT !.route = "image-studio", !.token = TRUE, !.action = action,
                      !.promptRaw = <<"a red chair">>, !.batch_count = count,
                      !.seed = seed, !.seed_lock = lock, !.camera_path = path,
                      !.angles = angles, !.strength = strength]

PlanCounts == {JsText, JsNull, JsNum(-1), JsNum(0)} \cup {JsNum(k) : k \in 3..MaxPlanCount}

PlanRequests ==
    {PlanBody("add_object", c, sd, l, cp, a, JsUndefined) :
        c \in PlanCounts, sd \in {JsUndefined, JsNum(1000)}, l \in BOOLEAN,
        cp \in {"none", "orbit"}, a \in {<<>>, <<"top", "low">>}}

Strengths == {JsUndefined, JsNull, JsText, JsNum(100), JsNum(600), JsNum(880), JsNum(1500)}

StrengthRequests ==
    {PlanBody(act, JsNum(k), JsNum(1000), FALSE, "none", <<>>, st) :
        act \in {"img2img", "inpaint", "add_object"}, k \in 2..MaxBatchCount, st \in Strengths}

Requests == PromptRequests \cup WaitRequests \cup ChainRequests \cup PlanRequests \cup StrengthRequests

Ideas == {<<"pizza", "night">>, <<"quarterly", "report">>}

BrandBody(idea, hint, token, flux, sdxl, optImage) ==
    [NoRequest EXCEPT !.route = "brand-post", !.idea = idea, !.image_model_hint = hint,
                      !.token = token, !.versionFlux = flux, !.versionSdxl = sdxl,
                      !.options_image = optImage]

\* brand posts over every configuration of the two version candidates, and the
\* requests that stop early (no idea, no image wanted, no token)
BrandRequests ==
    {BrandBody(i, h, TRUE, f, s, TRUE) :
        i \in Ideas, h \in {"auto"}, f \in BOOLEAN, s \in BOOLEAN}
    \cup {BrandBody(<<"pizza", "night">>, "sdxl", TRUE, TRUE, s, TRUE) : s \in BOOLEAN}
    \cup {BrandBody(<<>>, "auto", TRUE, TRUE, TRUE, TRUE),
          BrandBody(<<"pizza", "night">>, "auto", TRUE, TRUE, TRUE, FALSE),
          BrandBody(<<"pizza", "night">>, "auto", FALSE, TRUE, TRUE, TRUE)}

InitStudio ==
    /\ PollIdle
    /\ req \in Requests
    /\ pc = "recv"
    /\ image_data = (req.image = "inline")
    /\ tasks = <<>>
    /\ ti = 0
    /\ out = <<>>
    /\ ci = 0
    /\ tried = <<>>
    /\ elapsed = 0
    /\ p = NoJob
    /\ err = NoError
    /\ ret = NoRet
    /\ response = NoResponse
    /\ inflight = {}
    /\ submitted = <<>>
    /\ nSubmits = 0
    /\ fetchAt = -1
    /\ modelTried = <<>>
    /\ modelError = NoError
    /\ image_url = JNull
    /\ video_url = JNull
    /\ MoreIdle

InitBrand ==
    /\ PollIdle
    /\ req \in BrandRequests
    /\ pc = "b_recv"
    /\ image_data = FALSE
    /\ tasks = <<>>
    /\ ti = 0
    /\ out = <<>>
    /\ ci = 0
    /\ tried = <<>>
    /\ elapsed = 0
    /\ p = NoJob
    /\ err = NoError
    /\ ret = NoRet
    /\ response = NoResponse
    /\ inflight = {}
    /\ submitted = <<>>
    /\ nSubmits = 0
    /\ fetchAt = -1
    /\ modelTried = <<>>
    /\ modelError = NoError
    /\ image_url = JNull
    /\ video_url = JNull
    /\ MoreIdle

WanSlug == "wan-video/wan-2.2-t2v-fast"

ReelsBody(idea, token, slug, video, flux, sdxl, optImage) ==
    [NoRequest EXCEPT !.route = "video-reels", !.idea = idea, !.token = token,
                      !.videoSlug = slug, !.versionVideo = video,
                      !.versionFlux = flux, !.versionSdxl = sdxl, !.options_image = optImage]

\* the full path with no video model, over every configuration of the two still
\* versions; the full path behind each video model; the forced, image-only and
\* text-only branches; the requests that stop early
ReelsRequests ==
    {ReelsBody(i, TRUE, "", FALSE, f, s, TRUE) : i \in Ideas, f \in BOOLEAN, s \in BOOLEAN}
    \cup {ReelsBody(<<"quarterly", "report">>, TRUE, WanSlug, TRUE, FALSE, TRUE, TRUE),
          ReelsBody(<<"pizza", "night">>, TRUE, WanSlug, FALSE, TRUE, FALSE, TRUE),
          ReelsBody(<<"pizza", "night">>, TRUE, "", TRUE, FALSE, TRUE, TRUE),
          ReelsBody(<<"quarterly", "report">>, TRUE, "", FALSE, TRUE, TRUE, FALSE),
          ReelsBody(<<"quarterly", "report">>, FALSE, WanSlug, TRUE, TRUE, TRUE, TRUE),
          ReelsBody(<<>>, TRUE, WanSlug, TRUE, TRUE, TRUE, TRUE)}
    \cup {[ReelsBody(i, TRUE, sl, v, TRUE, TRUE, TRUE)
              EXCEPT !.force_video = TRUE, !.image_only = io] :
                 i \in {<<>>, <<"quarterly", "report">>}, sl \in {"", WanSlug},
                 v \in BOOLEAN, io \in BOOLEAN}
    \cup {[ReelsBody(<<"quarterly", "report">>, TRUE, "", FALSE, TRUE, TRUE, o)
              EXCEPT !.image_only = TRUE] : o \in BOOLEAN}
    \cup {[ReelsBody(<<"quarterly", "report">>, TRUE, WanSlug, TRUE, TRUE, TRUE, TRUE)
              EXCEPT !.text_only = TRUE]}

WanI2V == "wan-video/wan-2.5-i2v"
RemoteImage == JStr(<<"https://", "host/a.png">>)
Sources ==
    {RemoteImage,
     JStr(<<"data:", "image/jpeg", Base64Marker, "AAAA">>),
     JStr(<<"data:", "image/jpeg", ",", "AAAA">>),
     JStr(<<"data:", Base64Marker, "AAAA">>),
     JStr(<<"data:", "AAAA">>),
     JStr(<<"AAAA">>),
     JStr(<<Blank, "data:", "image/jpeg", ",", "AAAA">>),
     JStr(<<>>), JNull, JNumber("5")}

VideoStudioBody(source, mode, slug, token) ==
    [NoRequest EXCEPT !.route = "video-studio", !.source = source, !.mode = mode,
                      !.slugI2V = slug, !.token = token]

\* image to video over every source; the requests that stop at the mode, the
\* model slug or the credential
VideoStudioRequests ==
    {VideoStudioBody(src, "i2v", WanI2V, TRUE) : src \in Sources}
    \cup {VideoStudioBody(RemoteImage, "video", WanI2V, TRUE),
          VideoStudioBody(RemoteImage, "", "", TRUE),
          VideoStudioBody(RemoteImage, "i2v", WanI2V, FALSE)}

InitVideoStudio ==
    /\ PollIdle
    /\ MoreIdle
    /\ req \in VideoStudioRequests
    /\ pc = "s_recv"
    /\ image_data = FALSE
    /\ tasks = <<>>
    /\ ti = 0
    /\ out = <<>>
    /\ ci = 0
    /\ tried = <<>>
    /\ elapsed = 0
    /\ p = NoJob
    /\ err = NoError
    /\ ret = NoRet
    /\ response = NoResponse
    /\ inflight = {}
    /\ submitted = <<>>
    /\ nSubmits = 0
    /\ fetchAt = -1
    /\ modelTried = <<>>
    /\ modelError = NoError
    /\ image_url = JNull
    /\ video_url = JNull

NextVideoStudio == VideoStudioReceive \/ VideoStudioHttpError \/ VideoStudioDone

InitReels ==
    /\ PollIdle
    /\ req \in ReelsRequests
    /\ pc = "v_recv"
    /\ image_data = FALSE
    /\ tasks = <<>>
    /\ ti = 0
    /\ out = <<>>
    /\ ci = 0
    /\ tried = <<>>
    /\ elapsed = 0
    /\ p = NoJob
    /\ err = NoError
    /\ ret = NoRet
    /\ response = NoResponse
    /\ inflight = {}
    /\ submitted = <<>>
    /\ nSubmits = 0
    /\ fetchAt = -1
    /\ modelTried = <<>>
    /\ modelError = NoError
    /\ image_url = JNull
    /\ video_url = JNull
    /\ MoreIdle

NextReels ==
    \/ ReelsMissingIdea
    \/ ReelsThrows
    \/ ReelsPrepare
    \/ ReelsSlug
    \/ ReelsSlugHttpError
    \/ ReelsSlugDone
    \/ ReelsVideo
    \/ ReelsVideoHttpError
    \/ ReelsVideoDone
    \/ ReelsCheck
    \/ ReelsStill
    \/ ReelsStillHttpError
    \/ ReelsStillDone
    \/ ReelsRespond

NextBrand ==
    \/ BrandMissingIdea
    \/ BrandThrows
    \/ BrandPrepare
    \/ BrandVersion
    \/ BrandVersionHttpError
    \/ BrandVersionDone
    \/ BrandCheck
    \/ BrandSlug
    \/ BrandSlugHttpError
    \/ BrandSlugDone
    \/ BrandRespond

NextStudio ==
    \/ StudioMissingToken
    \/ StudioPlan
    \/ StudioFetchFail
    \/ RunSingleStart
    \/ Create
    \/ CreateHttpError
    \/ WaitTimeout
    \/ WaitFetch
    \/ WaitFetchHttpError
    \/ AttemptReturn
    \/ ChainCatch
    \/ AttemptThrow
    \/ StudioSingleRespond
    \/ BatchCollect
    \/ BatchRespond

PollCfgTries == {Absent} \cup 0..MaxTries

InitPoll ==
    /\ StudioIdle
    /\ MoreIdle
    /\ pollPc = "loop"
    /\ pollTries \in {TriesOf(t) : t \in PollCfgTries}
    /\ pollI = 0
    /\ pollLast = NoJob
    /\ pollResult = [job |-> NoJob, error |-> NoError]
    /\ pollFetches = 0
    /\ pollSleeps = 0

NextPoll == PollFetch \/ PollFetchHttpError \/ PollSleep \/ PollTimeout

(***************************************************************************)
(* The caller.  It may give up on its request while a poll loop of that    *)
(* request is running (a client-side timeout closes the connection).  No   *)
(* handler listens for the close, and no poller takes a signal.  The model *)
(* follows the abandonment of a bare poll, of every image-studio batch and *)
(* of the single image-studio requests outside the fallback chains.        *)
(***************************************************************************)
PollInFlight == pollPc \in {"loop", "sleep"} \/ pc = "wait"

Abandonable(r) ==
    \/ r.route = "none"
    \/ (r.route = "image-studio" /\ (IsBatch(r) \/ r.action \notin ChainActions))

ClientAbandon ==
    /\ ~abandoned
    /\ Abandonable(req)
    /\ PollInFlight
    /\ abandoned' = TRUE
    /\ UNCHANGED <<pollVars, studioVars, brandVars, reelVars, moreVars>>

Init == (InitPoll \/ InitStudio \/ InitBrand \/ InitReels \/ InitVideoStudio \/ InitPickUrl \/ InitChooseKey \/ InitJobClient \/ InitIso \/ InitPaywall \/ InitMakeSafe)
        /\ abandoned = FALSE

Next ==
    \/ NextPoll \/ NextStudio \/ NextBrand \/ NextReels \/ NextVideoStudio
    \/ PickUrlCall \/ ChooseKeyCall \/ JobClientCall \/ MakeSafeCall \/ NextIso \/ NextPaywall \/ ClientAbandon

Spec == Init /\ [][Next]_vars

\* every await completes: the unit of work goes on while a step is enabled
FairSpec == Spec /\ WF_vars(Next)

\* the three generation routes on their own, every await completing
InitRoutes == (InitStudio \/ InitReels \/ InitVideoStudio) /\ abandoned = FALSE
NextRoutes == NextPoll \/ NextStudio \/ NextReels \/ NextVideoStudio
FairRoutes == InitRoutes /\ [][NextRoutes]_vars /\ WF_vars(NextRoutes)

(***************************************************************************)
(* Properties                                                              *)
(***************************************************************************)
FailureKinds == {"config", "http", "timeout", "failed", "canceled", "empty"}
InRunSingle == pc \in {"create", "wait", "got", "threw", "ret"}
LogKinds(log) == {log[i].error.kind : i \in 1..Len(log)}

InBrandChain == pc \in {"b_version", "b_vpoll", "b_check", "b_slug", "b_spoll", "b_respond"}

\* the orders in which the brand-post chain can have entered / submitted candidates
BrandOrders(r) ==
    IF VersionCandidate(r) = NoCandidate
    THEN {<<>>, <<FluxSlug>>}
    ELSE {<<>>, <<VersionCandidate(r)>>, <<VersionCandidate(r), FluxSlug>>}

\* runSingle's chain: submission in list order, one open attempt, N+1 after N failed
RunSingleSequential ==
    InRunSingle =>
        /\ Cardinality(inflight) <= 1
        /\ inflight \subseteq {ci}
        /\ (pc = "wait" => inflight = {ci})
        /\ \A i \in 1..Len(submitted) : submitted[i] = i
        /\ (pc = "create" => Len(submitted) = ci - 1 /\ inflight = {})
        /\ (pc \in {"create", "wait", "got", "threw"} =>
                /\ Len(tried) = ci - 1
                /\ \A i \in 1..Len(tried) :
                      tried[i].model = Cands[i] /\ tried[i].error.kind \in FailureKinds)

\* brand-post's chain: the version candidate first, the slug only once the version
\* attempt is over and has left no image
BrandSequential ==
    InBrandChain =>
        /\ Cardinality(inflight) <= 1
        /\ modelTried \in BrandOrders(req)
        /\ \E k \in 0..Len(modelTried) : submitted = SubSeq(modelTried, 1, k)
                                          \/ submitted = SubSeq(modelTried, k + 1, Len(modelTried))
        /\ (pc = "b_vpoll" => inflight = {VersionCandidate(req)} /\ submitted = <<VersionCandidate(req)>>)
        /\ (pc = "b_spoll" => inflight = {FluxSlug} /\ submitted[Len(submitted)] = FluxSlug)
        /\ (pc \notin {"b_vpoll", "b_spoll"} => inflight = {} /\ pollPc = "idle")
        /\ (pc \in {"b_slug", "b_spoll"} => Falsy(image_url))
        /\ (pc = "b_version" => submitted = <<>>)
        /\ (FluxSlug \in {submitted[i] : i \in 1..Len(submitted)} /\ Len(modelTried) = 2) =>
                (modelError # NoError \/ Falsy(image_url) \/ pc = "b_respond")

\* C1: the candidates of a chain are submitted strictly in list order, candidate
\* N+1 only after the attempt of candidate N is over and has failed, and at most
\* one candidate's attempt is open at any time (runSingle's remove_bg / upscale
\* chain and brand-post's version-then-slug chain).
C1_ChainSequential == RunSingleSequential /\ BrandSequential

C1_Witness ==
    /\ req.action = "upscale"
    /\ pc = "wait"
    /\ ci = 3
    /\ submitted = <<1, 2, 3>>
    /\ Len(tried) = 2

\* C2: whatever error ends a candidate's attempt, the chain appends {candidate,
\* error} to the attempt log and goes on to the next candidate (or falls out of
\* the loop after the last); a candidate that yields a URL ends the chain, and
\* nothing is submitted once runSingle has its outcome.
C2_ChainContinues ==
    [][ /\ (pc = "threw" /\ IsChain) =>
              /\ err.kind \in FailureKinds
              /\ tried' = Append(tried, [model |-> Cands[ci], error |-> err])
              /\ nSubmits' = nSubmits
              /\ IF ci < Len(Cands)
                 THEN pc' = "create" /\ ci' = ci + 1
                 ELSE pc' = "ret" /\ ret'.error.kind = "exhausted"
        /\ (pc = "got" /\ IsChain) =>
              /\ pc' = "ret"
              /\ ret'.kind = "return"
              /\ HasUrl(ret')
              /\ ret'.model = Cands[ci]
              /\ nSubmits' = nSubmits
        /\ (pc = "ret" /\ IsChain) => (pc' # "create" /\ nSubmits' = nSubmits)
      ]_vars

C2_Witness ==
    /\ req.action = "upscale"
    /\ pc = "ret"
    /\ Len(tried) = Len(UPSCALE_MODELS)
    /\ LogKinds(tried) = {"http", "timeout", "failed", "canceled", "empty"}

\* C3: when candidates 1..N-1 failed and candidate N succeeded, runSingle returns
\* candidate N's output URL and slug, with an attempt log holding exactly the N-1
\* failed candidates, in order, each with its error.
C3_LastCandidateSucceeds ==
    (pc = "ret" /\ IsChain /\ ret.kind = "return" /\ HasUrl(ret)) =>
        /\ p.status = "succeeded"
        /\ ret.image_url = pickUrl(p.output)
        /\ okUrl(ret.image_url)
        /\ submitted = [i \in 1..ci |-> i]
        /\ ret.model = Cands[ci]
        /\ ret.hasTried
        /\ Len(ret.tried) = ci - 1
        /\ \A i \in 1..(ci - 1) :
              ret.tried[i].model = Cands[i] /\ ret.tried[i].error.kind \in FailureKinds

C3_Witness ==
    /\ req.action = "upscale"
    /\ pc = "ret"
    /\ ret.kind = "return"
    /\ HasUrl(ret)
    /\ ci = Len(UPSCALE_MODELS)
    /\ Len(ret.tried) = Len(UPSCALE_MODELS) - 1

\* C4: when every candidate of a chain has failed, the result handed to the caller
\* carries the attempt log, and the log has one entry per candidate.
C4_ExhaustionCarriesLog ==
    (pc = "ret" /\ ret.error.kind = "exhausted") =>
        (ret.hasTried /\ Len(ret.tried) = Len(Cands))

ExhaustedEntries(entries) ==
    {i \in 1..Len(entries) : entries[i].error.kind = "exhausted"}

\* the response reports an exhausted chain (as its error, or in a batch entry)
AnswersExhaustion ==
    /\ pc = "done"
    /\ (response.error.kind = "exhausted" \/ ExhaustedEntries(response.batch) # {})

\* C5 as stated: exhausted upscale candidates give a returned (not raised) result
\* that the handler answers with a 5xx status; exhausted remove_bg candidates raise.
C5_ExhaustionPolicy_AnySize ==
    /\ (pc = "ret" /\ ret.error.kind = "exhausted" /\ req.action = "upscale") =>
            (ret.kind = "return" /\ ret.status = 502)
    /\ (pc = "ret" /\ ret.error.kind = "exhausted" /\ req.action = "remove_bg") =>
            ret.kind = "throw"
    /\ (AnswersExhaustion /\ req.action = "upscale") => response.status >= 500

\* C5 (amended): exhausted upscale candidates give a returned (not raised) result,
\* answered with status 502 when the request is a single one (batch_count = 1); in
\* a batch the result becomes that task's entry and the batch is answered 200.
\* Exhausted remove_bg candidates raise.
C5_ExhaustionPolicy ==
    /\ (pc = "ret" /\ ret.error.kind = "exhausted" /\ req.action = "upscale") =>
            (ret.kind = "return" /\ ret.status = 502)
    /\ (pc = "ret" /\ ret.error.kind = "exhausted" /\ req.action = "remove_bg") =>
            ret.kind = "throw"
    /\ (AnswersExhaustion /\ req.action = "upscale" /\ ~IsBatch(req)) =>
            (response.status = 502 /\ ~response.ok)
    /\ (AnswersExhaustion /\ req.action = "upscale" /\ IsBatch(req)) =>
            (response.status = 200 /\ response.hasBatch)

C5_Witness ==
    /\ pc = "done"
    /\ req.action = "upscale"
    /\ ~IsBatch(req)
    /\ response.error.kind = "exhausted"
    /\ response.status = 502

\* the inputs runSingle refuses
MissingInput ==
    \/ (req.action \in EditActions \cup ChainActions /\ ~image_data)
    \/ (req.action = "text2img" /\ tasks[ti].prompt = <<>>)

\* C6: runSingle with no source image (remove_bg, upscale, img2img, inpaint), or
\* text2img with an empty prompt, fails at once: nothing is submitted to the
\* provider and the attempt log stays empty.
C6_ValidationFailsFirst ==
    (InRunSingle /\ MissingInput) =>
        /\ pc = "ret"
        /\ ret.kind = "throw"
        /\ ret.error.kind = "validation"
        /\ submitted = <<>>
        /\ tried = <<>>
        /\ inflight = {}

C6_Witness ==
    /\ pc = "ret"
    /\ req.action = "upscale"
    /\ ~image_data
    /\ ret.kind = "throw"
    /\ nSubmits = 0

\* C7: the status fetch that reports succeeded is the last step of the poller: it
\* returns that job, having made exactly i + 1 <= tries fetches and i sleeps.
C7_SucceededReturnsAtOnce ==
    /\ (pollLast.status = "succeeded") =>
            /\ pollPc = "returned"
            /\ pollResult.job = pollLast
            /\ pollFetches = pollI + 1
            /\ pollSleeps = pollI
            /\ pollFetches <= pollTries
    /\ (pollPc = "returned") => pollLast.status = "succeeded"

C7_Witness ==
    /\ pollPc = "returned"
    /\ pollFetches = 3
    /\ pollSleeps = 2

\* C8: a status fetch that reports failed or canceled ends the poll at once with a
\* job-failed error carrying the upstream error detail; no further status fetch is
\* made on that handle (pollPredictionByUrl and waitPrediction).
C8_TerminalFailureThrows ==
    /\ (pollLast.status \in {"failed", "canceled"}) =>
            /\ pollPc = "threw"
            /\ pollResult.error.kind = "failed"
            /\ pollResult.error.detail =
                  (IF pollLast.error # NoDetail THEN pollLast.error ELSE pollLast.status)
            /\ pollFetches = pollI + 1
    /\ (p.status \in {"failed", "canceled"}) =>
            /\ pc = "threw"
            /\ err.kind = p.status
            /\ err.model = Cands[ci]
            /\ err.detail = p.error
            /\ fetchAt = elapsed
            /\ ci \notin inflight

C8_Witness ==
    /\ pollPc = "threw"
    /\ pollLast.status = "canceled"
    /\ pollLast.error # NoDetail
    /\ pollFetches = 2

\* C9: the poller never makes more than tries status fetches; it times out exactly
\* when tries fetches (240 by default) have all reported a non-terminal status.
C9_TryBudget ==
    /\ pollFetches <= pollTries
    /\ (pollPc = "threw" /\ pollResult.error.kind = "timeout") =>
            (pollFetches = pollTries /\ pollI = pollTries)
    /\ (pollPc = "loop" /\ pollI = pollTries) => (ENABLED PollTimeout /\ ~ENABLED PollFetch)

C9_Witness ==
    /\ pollPc = "threw"
    /\ pollResult.error.kind = "timeout"
    /\ pollFetches = DefaultTries

\* a step that issues a status fetch (pollPredictionByUrl, waitPrediction) or
\* creates a provider job
IssuesProviderCall ==
    \/ pollFetches' > pollFetches
    \/ nSubmits' > nSubmits
    \/ (pc = "wait" /\ ~Expired(elapsed, MaxMsOf(req.max_wait_ms)) /\ studioVars' # studioVars)

\* C11: once the caller has abandoned the request, its poll loop issues no further
\* status fetch, and no further candidate or batch task is submitted for it.
C11_AbandonStopsWork == [][abandoned => ~IssuesProviderCall]_vars

\* the batch loop of an image-studio request is running / has answered
InBatchLoop == req.route = "image-studio" /\ IsBatch(req) /\ pc \in {"run", "create", "wait", "got", "threw", "ret"}
BatchAnswered == req.route = "image-studio" /\ pc = "done" /\ response.hasBatch

\* the slots are filled in task order: while task ti runs, exactly the slots of the
\* tasks before it are filled, and the answer has one slot per task
SlotsInTaskOrder ==
    /\ InBatchLoop => (ti \in 1..Len(tasks) /\ Len(out) = ti - 1)
    /\ (req.route = "image-studio" /\ pc = "finish") => Len(out) = Len(tasks)
    /\ BatchAnswered => (response.batch = out /\ Len(response.batch) = Len(tasks))

\* an error of a task never becomes the error of the request
NoTaskErrorEscapes ==
    /\ (InBatchLoop /\ pc = "ret") => ENABLED BatchCollect
    /\ (req.route = "image-studio" /\ IsBatch(req) /\ pc = "done" /\ tasks # <<>>) =>
            (response.hasBatch /\ response.status = 200 /\ response.ok)

\* a slot that carries an error is marked ok: false
FailuresMarkedNotOk ==
    \A i \in 1..Len(out) : out[i].error # NoError => ~out[i].ok

\* C12: a batch of n tasks is answered ok: true with exactly n entries, entry i
\* being the outcome of task i; a failing task is captured as {ok: false, error} in
\* its own slot, its error never escapes, and the remaining tasks still run.
C12_BatchAggregation == SlotsInTaskOrder /\ NoTaskErrorEscapes /\ FailuresMarkedNotOk

\* the slots of the tasks that succeeded: ok with a URL
Succeeded(entries) == {i \in 1..Len(entries) : entries[i].ok /\ HasUrl(entries[i])}

\* C13: the batch answer carries a top-level image_url iff some task succeeded,
\* and it is then the URL of the lowest-index successful task.
C13_FirstSuccessPointer ==
    BatchAnswered =>
        /\ HasUrl(response) <=> Succeeded(response.batch) # {}
        /\ \A i \in Succeeded(response.batch) :
              (\A k \in Succeeded(response.batch) : i <= k) =>
                    response.image_url = response.batch[i].image_url

C13_Witness ==
    /\ BatchAnswered
    /\ Succeeded(response.batch) = {1, 2}
    /\ response.batch[1].image_url = AltUrl
    /\ response.batch[2].image_url = OutUrl
    /\ response.image_url = AltUrl

\* a well-formed batch entry: a success with a usable URL, or a failure with its error
WellFormedEntry(e) ==
    \/ (e.ok /\ okUrl(e.image_url) /\ e.error = NoError)
    \/ (~e.ok /\ e.error # NoError)

\* C14: every entry of a batch answer is either a success that carries a usable
\* URL or a failure that carries its error; none is marked ok: true without a URL.
C14_EntriesWellFormed ==
    BatchAnswered => \A i \in 1..Len(response.batch) : WellFormedEntry(response.batch[i])

\* the plan of an image-studio request has been made and no answer sent yet
Planned == req.route = "image-studio" /\ pc \in {"run", "create", "wait", "got", "threw", "ret", "finish"}

\* clamp(requestedCount, 1, 8) for a count the request gives as a number; absent is 1
ClampedCount(raw) == IF raw.t = "num" /\ raw.n # 0 THEN Max(1, Min(8, raw.n)) ELSE 1

\* the batch size is the clamped count when the request gives a number (or nothing)
NumericBatchSize ==
    (Planned /\ req.batch_count.t \in {"num", "undefined", "null"}) =>
        Len(tasks) = ClampedCount(req.batch_count)

\* C15: whatever batch_count the request supplies, between 1 and 8 tasks are
\* planned and executed: clamp(requestedCount, 1, 8) of them, absent counting as 1.
C15_BatchSize ==
    /\ Planned => (Len(tasks) >= 1 /\ Len(tasks) <= 8)
    /\ NumericBatchSize
    /\ (Planned /\ pc = "finish") => Len(out) = Len(tasks)

\* the base seed of the plan: the caller's seed, else the seed of the first task
PlanBase == IF Seed(req) # JsNull THEN Seed(req) ELSE tasks[1].seed

\* C16: with base seed B (the caller's seed if given, else a draw in 0..9999999),
\* under seed lock every task of the plan has seed B; without it task i (0-based)
\* has seed B + i.
C16_SeedDerivation ==
    (Planned /\ tasks # <<>> /\ (IsBatch(req) \/ Seed(req) # JsNull)) =>
        /\ PlanBase.t = "num"
        /\ PlanBase.n >= 0
        /\ PlanBase.n < 10000000
        /\ \A i \in 1..Len(tasks) :
              tasks[i].seed = JsNum(IF req.seed_lock THEN PlanBase.n ELSE PlanBase.n + (i - 1))

C16_Witness ==
    /\ pc = "finish"
    /\ ~req.seed_lock
    /\ req.seed = JsNum(1000)
    /\ [i \in 1..Len(tasks) |-> tasks[i].seed.n] = <<1000, 1001, 1002, 1003, 1004>>

\* the fixed cycle of camera angles, as framing phrases
OrbitCycle ==
    << "front view", "3/4 angle, left side", "side view", "3/4 angle, right side",
       "back view", "3/4 angle, right side", "side view", "3/4 angle, left side" >>

\* C17: under an orbit camera path with more than one task, task i (0-based) is
\* framed by entry i mod 8 of the fixed cycle, whatever angle labels were supplied.
C17_OrbitFraming ==
    (Planned /\ req.camera_path = "orbit" /\ Len(tasks) > 1) =>
        \A i \in 1..Len(tasks) :
            tasks[i].prompt = req.promptRaw \o <<", ", OrbitCycle[((i - 1) % 8) + 1]>>

C17_Witness ==
    /\ pc = "finish"
    /\ req.camera_path = "orbit"
    /\ req.angles # <<>>
    /\ Len(tasks) = 8
    /\ tasks[6].prompt = <<"a red chair", ", ", "3/4 angle, right side">>

\* the base strength: the request's number, 0.6 when absent or not a number
FiniteBase == IF req.strength.t = "num" THEN req.strength.n ELSE 600

\* C18: in a batch over an image-edit action every task's strength is
\* clamp(base + j, 0.3, 0.9) for some |j| <= 0.06, so within 0.3..0.9, a non-finite
\* base counting as 0.6; for every other action it is the base strength unchanged.
C18_StrengthJitter ==
    (Planned /\ IsBatch(req)) =>
        \A i \in 1..Len(tasks) :
            IF req.action \in {"img2img", "inpaint"}
            THEN /\ tasks[i].strength.t = "num"
                 /\ tasks[i].strength.n >= 300
                 /\ tasks[i].strength.n <= 900
                 /\ \E j \in -60..60 :
                        tasks[i].strength.n = Min(900, Max(300, FiniteBase + j))
            ELSE tasks[i].strength = (IF Nullish(req.strength) THEN JsNum(600) ELSE req.strength)

C18_Witness ==
    /\ pc = "finish"
    /\ req.action = "inpaint"
    /\ req.strength = JsNum(880)
    /\ tasks[1].strength = JsNum(900)
    /\ tasks[2].strength = JsNum(820)

\* a video-reels request on the full path: neither text only, nor image only, nor forced
FullPath(r) ==
    r.route = "video-reels" /\ r.idea # <<>> /\ ~r.text_only /\ ~r.image_only /\ ~r.force_video

StillLabels == {StillFlux, StillSdxl}
StillSubmits == Cardinality({i \in 1..Len(submitted) : submitted[i] \in StillLabels})
VideoSubmits == Cardinality({i \in 1..Len(submitted) : submitted[i] \notin StillLabels})

\* the video path of an answered full-path request left no video URL
NoVideoAnswered ==
    /\ FullPath(req)
    /\ pc = "done"
    /\ response.status = 200
    /\ Falsy(video_url)

\* the fallback as the handler performs it: the still version of the chosen key only
StillOfChosenKey ==
    (NoVideoAnswered /\ req.token /\ req.options_image /\ versionImg(req)) => StillSubmits = 1

\* a still job is submitted only once the video path is over without a video, and once
SingleStillAfterVideo ==
    req.route = "video-reels" =>
        /\ StillSubmits <= 1
        /\ (StillSubmits = 1 => Falsy(video_url) /\ pc \in {"v_ipoll", "v_respond", "done"})

\* C19: for a text-to-video request, whenever the video path yields no video URL
\* (it failed, or no video model is configured) and at least one still-image
\* candidate (the FLUX or the SDXL version) is configured, a single still-image job
\* is submitted instead.  Read for a request that has its credential and has not
\* switched images off.
C19_StillFallback ==
    (NoVideoAnswered /\ req.token /\ req.options_image /\ (req.versionFlux \/ req.versionSdxl))
        => StillSubmits = 1

ReelsAnswered == req.route = "video-reels" /\ pc = "done"

\* the answer carries a still that stands in for the video the request asked for
StillSubstituted == ~(req.image_only /\ OptsImage(req)) /\ ~Falsy(response.image_url)

CanonicalDataUrl(v) ==
    /\ v.t = "str"
    /\ Len(v.s) = 4
    /\ v.s[1] = "data:"
    /\ v.s[2] \in MediaTypes
    /\ v.s[3] = Base64Marker
    /\ v.s[4] \notin {"data:", Blank, ",", Base64Marker} \cup MediaTypes

\* the source as submitted is the source normalized
Normalized(source, sent) ==
    \/ (okUrl(source) /\ sent = source)
    \/ (~okUrl(source) /\ CanonicalDataUrl(sent))

\* an inline payload that names its payload: "data:", a header, a comma, the payload
Repairable(source) ==
    /\ source.t = "str"
    /\ StartsWithData(source.s)
    /\ \E i \in 2..Len(source.s) : HasComma(source.s[i])

\* what the handler does repair: a URL, or a payload that starts with "data:" and
\* has its comma, is submitted normalized
NormalizesWhatItTakes ==
    (req.route = "video-studio" /\ nSubmits > 0 /\ (okUrl(req.source) \/ Repairable(req.source)))
        => Normalized(req.source, incomingImage)

\* C21: no provider job is submitted before the source image has been normalized:
\* an http(s) URL is passed through unchanged, an inline data: payload lacking the
\* media-type / base64 marker is rewritten to 'data:<type>;base64,<payload>', and a
\* missing or unrepairable source is rejected with an error response and zero
\* submissions.
C21_NormalizedBeforeSubmit ==
    req.route = "video-studio" =>
        /\ (nSubmits > 0 => Normalized(req.source, incomingImage))
        /\ (pc = "done" /\ ~okUrl(req.source) /\ ~Repairable(req.source)
                => ~response.ok /\ nSubmits = 0)

\* chooseImageModelKey has been called on fn.arg and has returned
RouterReturned == fn.name = "chooseImageModelKey" /\ fnOut # <<>>

\* the hint names a known model key, in any case
NamesSdxl(hint) == hint \in {"sdxl", "SDXL"}
NamesFlux(hint) == hint \in {"flux", "Flux"}

\* C25: whenever the explicit hint names a known model key (sdxl or flux, in any
\* case), chooseImageModelKey returns that key, for every style and every idea.
C25_HintWins ==
    RouterReturned =>
        \A k \in 1..Len(fnOut) :
            /\ (NamesSdxl(fn.arg.image_model_hint) => fnOut[k] = "sdxl")
            /\ (NamesFlux(fn.arg.image_model_hint) => fnOut[k] = "flux")

\* C25 witness: the hint SDXL against a style and an idea that both say flux
C25_Witness ==
    /\ RouterReturned
    /\ fn.arg = [idea |-> <<"pizza", "night">>, style |-> "cartoon3d", image_model_hint |-> "SDXL"]
    /\ fnOut = <<"sdxl", "sdxl">>

StylisedStyle(style) == style \in {"cartoon3d", "illustrated", "ILLUSTRATED"}
PhotoStyle(style) == style \in {"futuristic", "realistic", "Realistic"}

\* the idea text contains one of the fixed keywords, in any case
ContainsKeyword(idea) ==
    \E i \in 1..Len(idea) :
        idea[i] \in {"halloween", "kids", "pizza", "party", "fun", "gymnastics", "Pizza"}

\* C32: with no valid hint, a declared style cartoon3d or illustrated yields flux
\* and futuristic or realistic yields sdxl, whatever the idea text; with any other
\* style the key is flux iff the idea contains one of the fixed keywords
\* (case-insensitive), else sdxl.
C32_StyleBeforeKeywords ==
    (RouterReturned /\ ~NamesSdxl(fn.arg.image_model_hint) /\ ~NamesFlux(fn.arg.image_model_hint)) =>
        \A k \in 1..Len(fnOut) :
            fnOut[k] = IF StylisedStyle(fn.arg.style) THEN "flux"
                       ELSE IF PhotoStyle(fn.arg.style) THEN "sdxl"
                       ELSE IF ContainsKeyword(fn.arg.idea) THEN "flux" ELSE "sdxl"

\* C32 witness: the style realistic against an idea full of keywords and an unknown
\* hint gives sdxl
C32_Witness ==
    /\ RouterReturned
    /\ fn.arg = [idea |-> <<"pizza", "night">>, style |-> "realistic", image_model_hint |-> "dalle"]
    /\ fnOut = <<"sdxl", "sdxl">>

\* the job client has been called on its own
JobClientReturned == fn.name \in {"replicateCreate", "replicateCreateBySlug"} /\ fnOut # <<>>

\* image-studio with no credential: nothing fetched, nothing submitted, error answered
StudioRefusesFirst ==
    (req.route = "image-studio" /\ ~req.token) =>
        /\ pc \in {"recv", "done"}
        /\ nSubmits = 0
        /\ image_data = (req.image = "inline")
        /\ (pc = "done" => ~response.ok /\ response.status = 500 /\ response.error.kind = "config")

\* C27: no job-creation request is sent to the provider while the API credential
\* is unset or while the candidate's version id / slug is empty (replicateCreate
\* and replicateCreateBySlug fail first), and image-studio answers a missing
\* credential with an error before fetching any source image or submitting any job.
C27_ConfigurationGuard ==
    /\ (req.route # "none" /\ nSubmits > 0 => req.token)
    /\ (JobClientReturned =>
            /\ (nSubmits > 0 => fn.arg.token /\ fn.arg.id # "")
            /\ (~fn.arg.token \/ fn.arg.id = "" => nSubmits = 0 /\ fnOut[1].kind = "config"))
    /\ StudioRefusesFirst

\* C27 witness: replicateCreateBySlug called with the credential and an empty slug
\* throws and sends nothing
C27_Witness ==
    /\ JobClientReturned
    /\ fn = [name |-> "replicateCreateBySlug", arg |-> [token |-> TRUE, id |-> ""]]
    /\ fnOut = <<Error("config", "", "Missing Replicate model slug")>>
    /\ nSubmits = 0

\* C28: within one chain run each candidate is submitted at most once (submissions
\* <= candidates); a non-success HTTP answer to a submit or to a status fetch ends
\* that candidate's attempt with an error that carries the upstream status code;
\* the failing call is not repeated, and the only retry is the next candidate.
C28_NoInPlaceRetry ==
    InRunSingle =>
        /\ Len(submitted) <= Len(Cands)
        /\ \A i, j \in 1..Len(submitted) : i # j => submitted[i] # submitted[j]
        /\ (pc = "threw" /\ err.kind = "http" =>
                /\ ci \notin inflight
                /\ err.detail = "500"
                /\ submitted[Len(submitted)] = ci)
        /\ \A i \in 1..Len(tried) :
                /\ tried[i].model = Cands[i]
                /\ (tried[i].error.kind = "http" => tried[i].error.detail = "500")
        /\ (pc = "create" => Len(submitted) = ci - 1)

\* C28 witness: the first candidate's submit and the second candidate's status fetch
\* were answered with HTTP errors; each was logged once and the third is running
C28_Witness ==
    /\ pc = "wait"
    /\ req.action = "upscale"
    /\ ci = 3
    /\ submitted = <<1, 2, 3>>
    /\ tried = <<[model |-> Cands[1], error |-> HttpError], [model |-> Cands[2], error |-> HttpError]>>
    /\ nSubmits = 3

\* the framing phrase of an angle label
LabelPhrase(label) ==
    CASE label = "front" -> "front view"
      [] label = "top" -> "top-down view"
      [] label = "low" -> "low-angle cinematic shot"
      [] OTHER -> label

\* task i (from 1) is framed by label (i - 1) mod L of the L labels supplied, and by
\* nothing when none was supplied
FramedByLabels ==
    \A i \in 1..Len(tasks) :
        tasks[i].prompt =
            IF req.angles = <<>> THEN req.promptRaw
            ELSE req.promptRaw \o <<", ", LabelPhrase(req.angles[((i - 1) % Len(req.angles)) + 1])>>

\* with no orbit path requested, the labels frame the tasks
LabelsWithoutOrbit == (Planned /\ req.camera_path # "orbit") => FramedByLabels

\* C30: whenever the orbit cycle does not apply (no orbit path requested, or one
\* task only), the caller's explicit angle labels supply the framing phrases: task
\* i uses label i mod L of the L labels supplied, a single task the first label,
\* and a task has no framing phrase only when no labels were supplied.
C30_ExplicitLabels ==
    (Planned /\ (req.camera_path # "orbit" \/ Len(tasks) = 1)) => FramedByLabels

\* requests are at the paywall
PaywallRuns == gate # NoGate

\* the limit and the used count of the key k of keys.json, as consumeCredits and
\* /api/key-check read them
LimitOfKey(k) == MaxOf(KEY_MAP[k])
UsedOfKey(k) == UsedOf(KEY_MAP[k], inheritedUsed, 0)

\* the used count of every limited key is within its limit
WithinLimit ==
    PaywallRuns => \A k \in DOMAIN KEY_MAP : LimitOfKey(k) > 0 => UsedOfKey(k) <= LimitOfKey(k)

\* the same, for the records that carry a `used` of their own
OwnCountWithinLimit ==
    PaywallRuns =>
        \A k \in DOMAIN KEY_MAP :
            (LimitOfKey(k) > 0 /\ KEY_MAP[k].used # JsUndefined) => UsedOfKey(k) <= LimitOfKey(k)

\* a step that rejects a request for lack of credits
RejectsForCredits ==
    \E i \in DOMAIN gate : gate[i].error # "no_credits" /\ gate'[i].error = "no_credits"

\* a rejection for lack of credits answers 402 and leaves every count as it was
RejectionLeavesCounts ==
    [][RejectsForCredits => (KEY_MAP' = KEY_MAP /\ inheritedUsed' = inheritedUsed)]_vars

\* only a key on record with a positive limit is ever rejected for lack of credits
UnlimitedNeverRejected ==
    PaywallRuns =>
        \A i \in DOMAIN gate :
            gate[i].error = "no_credits" =>
                /\ gate[i].status = 402
                /\ gate[i].key \in DOMAIN KEY_MAP
                /\ LimitOfKey(gate[i].key) > 0

\* C34: for every key with a positive limit (max/limit/credits), after any sequence
\* of requests the key's used count never grows beyond the limit; a request that
\* would exceed it is rejected with 'no_credits' and leaves the used count
\* unchanged; a key whose limit is 0 is unlimited and is never rejected for lack
\* of credits.
C34_CreditLimit == []WithinLimit /\ RejectionLeavesCounts /\ []UnlimitedNeverRejected

\* a step in which the paywall admits request i as a paid generation request made
\* with the key k
PaidAdmission(i, k) ==
    /\ gate[i].pc = "arrived" /\ gate'[i].pc = "admitted"
    /\ PAYWALL_ENABLED
    /\ gate[i].path \in PaidPaths
    /\ gate[i].key = k

\* the used count of k changes in a step only by the admission of a paid request
\* made with k, and that admission adds exactly 1
CountFrame(k) ==
    /\ (UsedOfKey(k)' # UsedOfKey(k) =>
            \E i \in DOMAIN gate : PaidAdmission(i, k) /\ UsedOfKey(k)' = UsedOfKey(k) + 1)
    /\ \A i \in DOMAIN gate : PaidAdmission(i, k) => UsedOfKey(k)' = UsedOfKey(k) + 1

\* the frame holds for the records that carry a `used` of their own
OwnCountFrame ==
    [][PaywallRuns => \A k \in DOMAIN KEY_MAP : KEY_MAP[k].used # JsUndefined => CountFrame(k)]_vars

\* C35: a key's used count changes only when a paid generation request is admitted,
\* and then by exactly 1 per request, whatever the batch size and whether or not the
\* generation later succeeds; /api/key-check, requests with the master key, with a
\* missing or unknown key, and all requests while the paywall is disabled leave
\* every used count unchanged.
C35_AccountingFrame ==
    [][PaywallRuns => \A k \in DOMAIN KEY_MAP : CountFrame(k)]_vars

\* the paid requests made with the key k that the paywall has let through
AdmittedOn(k) ==
    {i \in DOMAIN gate :
        /\ gate[i].key = k
        /\ gate[i].path \in PaidPaths
        /\ (gate[i].pc = "admitted" \/ (gate[i].pc = "answered" /\ gate[i].error = ""))}

\* C36: the credit check and the charge are atomic: under every interleaving of
\* the requests made with one key, the number of admitted requests never exceeds
\* the credits the key had left (every count starts at 0 here, so its limit); two
\* requests racing for the last credit are never both admitted.
C36_AtomicCharge ==
    (PaywallRuns /\ PAYWALL_ENABLED) =>
        \A k \in DOMAIN KEY_MAP :
            LimitOfKey(k) > 0 => Cardinality(AdmittedOn(k)) <= LimitOfKey(k)

\* C36 witness: two paid requests with VIP999 (one credit) arrived before either
\* passed the paywall; the second was admitted, the first rejected
C36_Witness ==
    /\ PaywallRuns /\ PAYWALL_ENABLED
    /\ \A i \in DOMAIN gate : gate[i].key = "VIP999" /\ gate[i].path \in PaidPaths /\ gate[i].seen = 0
    /\ gate[2].pc = "admitted"
    /\ gate[1].pc = "answered" /\ gate[1].error = "no_credits" /\ gate[1].status = 402
    /\ UsedOfKey("VIP999") = 1

\* a step of a batch request that sends a job-creation request to the provider
BatchSubmits == req.route = "image-studio" /\ IsBatch(req) /\ nSubmits' = nSubmits + 1

\* a step of the batch loop that moves to another task
BatchMoves == InBatchLoop /\ ti' # ti

\* C33: within one batch request at most one provider job is open at any time;
\* a job of task i+1 is submitted only when tasks 1..i have their outcome in the
\* result list (a success or a recorded failure) and no job is open, and the loop
\* goes through the tasks in task order.
C33_SequentialBatch ==
    /\ [](InBatchLoop => Cardinality(inflight) <= 1)
    /\ [][BatchSubmits => (inflight = {} /\ ti \in 1..Len(tasks) /\ Len(out) = ti - 1 /\ ti' = ti)]_vars
    /\ [][BatchMoves => (inflight = {} /\ ti' = ti + 1 /\ Len(out') = ti)]_vars

\* C33 witness: the job of the second task is open, after the first task was
\* recorded as failed
C33_Witness ==
    /\ InBatchLoop
    /\ ti = 2 /\ pc = "wait" /\ inflight # {}
    /\ Len(out) = 1 /\ ~out[1].ok
    /\ nSubmits = 2

\* a job of the running task has just been submitted to the provider
JustSubmitted == req.route = "image-studio" /\ pc = "wait" /\ ti \in 1..Len(tasks)

\* the text-to-image jobs carry the task's resolved prompt
TextPromptResolved ==
    (JustSubmitted /\ req.action = "text2img") =>
        InputPrompt(req.action, tasks[ti], req.promptRaw) = tasks[ti].prompt

\* C31: for every task of a text2img, img2img or inpaint request, the prompt sent
\* to the provider is the task's resolved prompt: the base prompt followed by the
\* task's framing phrase when the task has one.
C31_ResolvedPromptSubmitted ==
    (JustSubmitted /\ req.action \in {"text2img"} \cup EditActions) =>
        InputPrompt(req.action, tasks[ti], req.promptRaw) = tasks[ti].prompt

\* the attempt log of a chain whose first k candidates failed
FailedLog(action, k) ==
    [i \in 1..k |-> [model |-> Candidates(action)[i],
                     error |-> Error("failed", Candidates(action)[i], NoDetail)]]

\* what runSingle hands back to a request that runs alone against the provider
\* answers of frame f
AloneRet(f) ==
    IF f.action = "text2img"
    THEN (IF f.fails = 0 THEN ReturnedPlain(f.url, FluxSchnell)
          ELSE Thrown(Error("failed", FluxSchnell, NoDetail)))
    ELSE IF ~f.image_data THEN Thrown(Error("validation", "", "image is required"))
    ELSE IF f.fails < Len(Candidates(f.action))
    THEN Returned(f.url, Candidates(f.action)[f.fails + 1], FailedLog(f.action, f.fails))
    ELSE IF f.action = "upscale"
    THEN ReturnedError(Error("exhausted", "", "no available models"), 502)
    ELSE Thrown(Error("exhausted", "", "all models failed"))

\* the answer to that request
AloneResponse(f) ==
    IF AloneRet(f).kind = "return" /\ AloneRet(f).image_url # JNull
    THEN Resp(200, TRUE, NoError, AloneRet(f).model, f.url, <<>>, FALSE)
    ELSE Resp(502, FALSE, AloneRet(f).error, "", JNull, <<>>, FALSE)

\* C29: concurrent requests share no mutable orchestration state (jobs, tasks,
\* attempt logs and results are local to one request): under every interleaving of
\* two requests, each request's result is the one it gets running alone against
\* the same provider answers.
C29_RequestIsolation ==
    \A id \in DOMAIN iso :
        /\ (iso[id].pc \in {"ret", "done"} => iso[id].ret = AloneRet(iso[id]))
        /\ (iso[id].pc = "done" => iso[id].response = AloneResponse(iso[id]))
        /\ \A i \in 1..Len(iso[id].tried) :
              iso[id].tried[i] = FailedLog(iso[id].action, Len(iso[id].tried))[i]

\* C29 witness: both chains have failed candidates in their logs at the same time,
\* and the first request has been answered with its own URL and its own log
C29_Witness ==
    /\ iso # NoFrames
    /\ iso[1].action = "upscale" /\ iso[2].action = "remove_bg"
    /\ iso[1].pc = "done" /\ iso[1].ret.tried = FailedLog("upscale", 2)
    /\ iso[1].response.image_url = OutUrl
    /\ iso[2].pc = "wait" /\ Len(iso[2].tried) = 1

\* pickUrl has been called on fn.arg and has returned fnOut[1]
PickUrlReturned == fn.name = "pickUrl" /\ fnOut # <<>>

HasUrlValue(items) == \E i \in 1..Len(items) : okUrl(items[i])

\* v is the first URL-shaped value of items, in their order
FirstUrlValue(v, items) ==
    \E i \in 1..Len(items) :
        /\ items[i] = v
        /\ okUrl(v)
        /\ \A j \in 1..(i - 1) : ~okUrl(items[j])

\* no URL-shaped value in x, in its values, or in the values of its values
NoUrlShaped(x) ==
    /\ ~okUrl(x)
    /\ \A i \in 1..Len(x.items) :
          /\ ~okUrl(x.items[i])
          /\ \A j \in 1..Len(x.items[i].items) : ~okUrl(x.items[i].items[j])

\* C22: pickUrl returns a URL-shaped string as it is; for a sequence whose first
\* element is URL-shaped, that element; for a sequence whose first element is a
\* mapping, or for a bare mapping, the first URL-shaped value of the mapping in
\* iteration order; and none for a payload with no URL-shaped value (empty
\* object, number, null).
C22_ExtractorResult ==
    PickUrlReturned =>
        LET x == fn.arg
            r == fnOut[1]
        IN  /\ (okUrl(x) => r = x)
            /\ (x.t = "arr" /\ x.items # <<>> /\ okUrl(x.items[1]) => r = x.items[1])
            /\ (x.t = "arr" /\ x.items # <<>> /\ x.items[1].t = "obj"
                    /\ HasUrlValue(x.items[1].items) => FirstUrlValue(r, x.items[1].items))
            /\ (x.t = "obj" /\ HasUrlValue(x.items) => FirstUrlValue(r, x.items))
            /\ (x.t = "obj" /\ ~HasUrlValue(x.items) => r = JNull)
            /\ (NoUrlShaped(x) => r = JNull)

\* C22 witness: a sequence whose first element is a mapping; the URL of the
\* mapping comes back, not the URL that follows it in the sequence
C22_Witness ==
    /\ PickUrlReturned
    /\ fn.arg = JArr(<<JObj(<<PlainText, OutUrl>>), AltUrl>>)
    /\ fnOut[1] = OutUrl

\* C23: on a sequence pickUrl inspects the first element only: when the first
\* element is neither URL-shaped nor a mapping that holds a URL-shaped value, the
\* result is none, whatever the later elements are.
C23_FirstElementOnly ==
    PickUrlReturned =>
        LET x == fn.arg
        IN  (/\ x.t = "arr"
             /\ x.items # <<>>
             /\ ~okUrl(x.items[1])
             /\ ~(x.items[1].t = "obj" /\ HasUrlValue(x.items[1].items)))
            => fnOut[1] = JNull

\* the caller of pickUrl inside waitPrediction: a succeeded job goes on with a
\* URL, or ends the attempt with the error "empty output"
CallerSignalsNoOutput ==
    /\ (pc = "got" => p.status = "succeeded" /\ okUrl(pickUrl(p.output)))
    /\ (pc = "threw" /\ err.kind = "empty" =>
            p.status = "succeeded" /\ pickUrl(p.output) = JNull /\ err.model = Cands[ci])

\* C24: pickUrl never fails: for every payload (null, number, boolean, string,
\* empty or nested sequence / mapping, sequence with a null first element) it
\* returns a URL or none; a succeeded job with no extractable URL is signalled by
\* the caller as "no usable output" (the error "empty output").
C24_ExtractorTotal ==
    /\ (PickUrlReturned => fnOut[1] = JNull \/ okUrl(fnOut[1]))
    /\ CallerSignalsNoOutput

\* C24 witness: a sequence with a null first element, answered with none
C24_Witness ==
    /\ PickUrlReturned
    /\ fn.arg = JArr(<<JNull>>)
    /\ fnOut[1] = JNull

\* video is forced (X-Force-Video, or mode text2video / video / reels) and the
\* request is not text-only
Forced == req.route = "video-reels" /\ req.force_video /\ ~req.text_only

\* a forced request submits video jobs only
NoStillWhenForced ==
    Forced => \A i \in 1..Len(submitted) : submitted[i] \in {VideoSlug, VideoVersion}

\* the slug candidate first, the version candidate only when no video URL is held
SlugBeforeVersion ==
    Forced =>
        /\ submitted \in {<<>>, <<VideoSlug>>, <<VideoVersion>>, <<VideoSlug, VideoVersion>>}
        /\ (pc = "v_vpoll" => Falsy(video_url))

\* the answer is the video
AnswersVideo ==
    response.status = 200 /\ response.mode = "video" /\ ~Falsy(response.video_url)

\* the answer is a failure with this status, and carries no image and no video
AnswersFailure(status) ==
    /\ response.status = status /\ ~response.ok
    /\ response.image_url = JNull /\ response.video_url = JNull

\* C38 as stated: a forced request is answered with the video or with a 502 failure.
C38_ForcedVideoOr502 ==
    /\ NoStillWhenForced
    /\ SlugBeforeVersion
    /\ (Forced /\ pc = "done") => (AnswersVideo \/ AnswersFailure(502))

\* C38: when video is forced and the request is not text-only, no still-image job
\* is ever submitted; the slug candidate is tried first and the version-pinned
\* candidate only if the slug attempt left no video URL; the response is mode
\* 'video' with a non-null video_url, or a failure: 502 when the attempts left no
\* video, 400 when the idea is missing and 500 when an error is raised before the
\* attempts, both with nothing submitted.
C38_ForcedVideoNeverDegrades ==
    /\ NoStillWhenForced
    /\ SlugBeforeVersion
    /\ (Forced /\ pc = "done") =>
            \/ AnswersVideo
            \/ (AnswersFailure(502) /\ req.idea # <<>>)
            \/ (AnswersFailure(400) /\ req.idea = <<>> /\ nSubmits = 0)
            \/ (AnswersFailure(500) /\ req.idea # <<>> /\ nSubmits = 0)

\* C38 witness: a forced request whose slug attempt and version attempt both left
\* no video is answered 502
C38_Witness ==
    /\ Forced /\ pc = "done"
    /\ submitted = <<VideoSlug, VideoVersion>>
    /\ AnswersFailure(502)

\* a job of a video-reels request has been submitted: its input.prompt is vprompt
ReelsSubmitted == req.route = "video-reels" /\ nSubmits > 0

\* outside image_only requests, every job carries a non-empty visual prompt
PromptSetByCaptionStep ==
    (ReelsSubmitted /\ ~req.image_only) => vprompt \in {WrittenPrompt, FallbackPrompt(req.idea)}

\* C39: every job that /api/video-reels submits to the provider (video or still
\* image, in the forced, image-only and full paths) carries a non-empty visual
\* prompt: at each submission the prompt variable has been set either from the
\* captioning step or from its fallback text.
C39_PromptAlwaysSet ==
    ReelsSubmitted => (vprompt.t = "str" /\ vprompt.s # <<>>)

\* the routes that generate
GenerationRoutes == {"image-studio", "video-studio", "video-reels"}

\* the request has its HTTP response
Answered == pc = "done" /\ response # NoResponse

\* a response, once sent, is never followed by another one
OneResponseAtMost == [][response # NoResponse => response' = response]_vars

\* a handler that has ended has answered
EndedMeansAnswered == (req.route \in GenerationRoutes /\ pc = "done") => response # NoResponse

\* the video routes always answer
VideoRoutesAnswer == (req.route \in {"video-studio", "video-reels"}) ~> Answered

\* image-studio answers whenever max_wait_ms is absent, null or a number
StudioAnswersUnderCeiling ==
    (req.route = "image-studio" /\ MaxMsOf(req.max_wait_ms).t \in {"num", "null"}) ~> Answered

\* C37: every request to /api/image-studio, /api/video-studio and /api/video-reels
\* eventually receives exactly one HTTP response (never none, never two), on every
\* path: validation failure, missing credential, chain exhaustion, poll timeout,
\* task failures in a batch, or success.
C37_ExactlyOneResponse ==
    /\ OneResponseAtMost
    /\ (req.route \in GenerationRoutes) ~> Answered

\* the first piece that is not white space is "data:"
TrimmedStartsWithData(v) ==
    \E i \in 1..Len(v.s) : v.s[i] = "data:" /\ \A k \in 1..(i - 1) : v.s[k] = Blank

\* 'data:', at least one character that is not ';', then ';base64,'
ContainsMarker(v) ==
    /\ v.t = "str"
    /\ \E i \in 1..Len(v.s) : \E j \in (i + 2)..Len(v.s) :
          /\ v.s[i] = "data:"
          /\ v.s[j] = Base64Marker
          /\ \A k \in (i + 1)..(j - 1) : v.s[k] # Base64Marker

MakeSafeReturned == fn.name = "makeDataUrlSafe" /\ fnOut # <<>>

\* C40: makeDataUrlSafe returns none iff the trimmed input does not start with
\* 'data:'; otherwise it returns a string that contains a 'data:<type>;base64,'
\* marker; and applying it to its own output returns that output unchanged.
C40_CanonicalIdempotent ==
    MakeSafeReturned =>
        /\ (fnOut[1] = JNull) <=> ~TrimmedStartsWithData(fn.arg)
        /\ fnOut[1] # JNull => ContainsMarker(fnOut[1])
        /\ Len(fnOut) = 2 => fnOut[2] = fnOut[1]

\* a payload whose header names no encoding is repaired, and the repaired string
\* comes back unchanged from a second call
C40_Witness ==
    /\ fn.name = "makeDataUrlSafe"
    /\ fn.arg = JStr(<<"data:", "image/png", ",", "AAAA">>)
    /\ fnOut = <<JStr(<<"data:", "image/png", Base64Marker, "AAAA">>),
                 JStr(<<"data:", "image/png", Base64Marker, "AAAA">>)>>

\* no status fetch is issued once the ceiling of max_wait_ms has been exceeded
NoLateFetch ==
    (pc = "wait" /\ fetchAt >= 0 /\ MaxMsOf(req.max_wait_ms).t = "num") =>
        fetchAt <= MaxMsOf(req.max_wait_ms).n

\* C10: every image-edit poll loop ends, whatever max_wait_ms the request supplies:
\* the request is answered even if the job never reaches a terminal status, and no
\* status fetch is issued after the ceiling.
C10_WaitLoopEnds ==
    /\ []NoLateFetch
    /\ <>(pc \in {"idle", "done"})


====
